---------------------------- MODULE Spec2Model ----------------------------
(***************************************************************************)
(* Order / inventory consistency protocol of the e-commerce microservices. *)
(*                                                                         *)
(*   SpecLedger : one Inventory instance, its methods and the per-item     *)
(*                bodies of the inventory event handlers run in sequence.  *)
(*   SpecInv    : the inventory consumer (product-service) on its queue,   *)
(*                one handler per consumer instance, every datastore       *)
(*                access a step of its own.                                *)
(*   SpecCreated: the inventory consumer with order.created messages only, *)
(*                their item lists with an item that cannot be reserved.   *)
(*   SpecOrder  : the contents of one order of the order service: the      *)
(*                Order model, the item and discount controllers and the   *)
(*                propagation of product.updated.                          *)
(*   SpecLock   : the lock of the order's contents once its status has     *)
(*                left the open statuses.                                  *)
(*   SpecStatus : the status of one order: every controller, webhook and   *)
(*                consumer handler that writes it.                         *)
(*   SpecBreaker: one CircuitBreaker instance and the fire() calls of its  *)
(*                callers, each from its entry to its settlement.          *)
(*   SpecNumber : the orderNumber of the documents of the orders           *)
(*                collection, from their first save on.                    *)
(*   SpecMirror : the items of one order and the stock the inventory       *)
(*                consumer reserves for them.                              *)
(*   SpecConsumer: the connection, channel and deliveries of one consumer  *)
(*                instance across close and re-setup.                      *)
(*   SpecTotals : the amounts of one order document under the model's      *)
(*                calculateTotals and applyDiscount methods.               *)
(*   SpecInvLive: SpecInv with consumers that keep consuming.              *)
(*   SpecItems  : the item lists of one order under createOrder,           *)
(*                addOrderItem and removeOrderItem.                        *)
(*   SpecPublisher: the connection and channel of the order publisher      *)
(*                across concurrent publishes, close and retry.            *)
(*   SpecReserve: one order and the inventory row of its product, every    *)
(*                order event handled in the order it is published.        *)
(***************************************************************************)
EXTENDS Integers, Sequences, FiniteSets, TLC

(***************************************************************************)
(* Bounds                                                                  *)
(***************************************************************************)
\* largest stock count of an inventory row
MaxQty == 3
\* largest amount passed to an inventory operation
MaxAmt == 2

\* largest stock count of a row of the inventory table
MaxStock == 2
\* messages published to the inventory queue
MaxMsgs == 2
\* messages waiting in the inventory queue
MaxQueue == 1

\* largest quantity of one item of an order
MaxItemQty == 2
\* largest number of discounts applied to an order
MaxDiscounts == 1

\* largest failureThreshold and successThreshold of a circuit breaker
MaxThreshold == 2
\* latest reading of the clock the circuit breaker sees
MaxTime == 4
\* latest second of the clock the order numbers are drawn from
MaxSec == 3
\* largest number of connections a consumer instance opens
MaxConns == 2
\* largest delivery tag of a channel
MaxTag == 2
\* largest number of connections the order publisher opens
MaxPubConns == 2
\* largest number of publishOrderEvent calls
MaxCalls == 2

Amounts == 0..MaxAmt

VARIABLES
    row,        \* SpecLedger: the inventory row of one product
    call,       \* SpecLedger: the last operation applied to the row
    scn,        \* SpecLedger: the reserve -> pay / cancel scenario in progress
    inv,        \* SpecInv: the inventory table, productId -> row
    queue,      \* SpecInv: product_service_queue at the broker
    nPub,       \* SpecInv: messages published so far
    h,          \* SpecInv: handleMessage of each consumer instance
    dlq,        \* SpecInv: messages dead-lettered so far
    ord,        \* SpecOrder: the order document as persisted
    pu,         \* SpecOrder: handleProductUpdated of the order-service consumer
    pay,        \* SpecStatus: the processPayment request between its publish
                \* and its save
    last,       \* SpecOrder: the last operation and the events it published
    cb,         \* SpecBreaker: the CircuitBreaker instance
    opts,       \* SpecBreaker: the options the instance was constructed with
    now,        \* SpecBreaker: Date.now()
    calls,      \* SpecBreaker: the fire() call of each caller
    done,       \* SpecBreaker: what the fire() that settled last gave back
    docs,       \* SpecNumber: the documents of the orders collection
    sec,        \* SpecNumber: Math.floor(Date.now() / 1000)
    resp,       \* SpecNumber: the save() that settled last
    channel,    \* SpecConsumer: the module's channel variable, 0 for null
    conns,      \* SpecConsumer: the instance's connections that are open
    consuming,  \* SpecConsumer: the connections whose channel has a consumer
    nConn,      \* SpecConsumer: connections opened so far
    timers,     \* SpecConsumer: pending calls of setupMessageConsumer
    ready,      \* SpecConsumer: the messages ready in product_service_queue
    unacked,    \* SpecConsumer: the unacknowledged delivery of each channel
    tags,       \* SpecConsumer: the last delivery tag of each channel
    running,    \* SpecConsumer: the handleMessage calls in flight
    published,  \* SpecConsumer: the messages published so far
    pchannel,   \* SpecPublisher: the publisher's channel variable, 0 for null
    pconns,     \* SpecPublisher: the process's connections that are open
    pN,         \* SpecPublisher: connections opened so far
    psetups,    \* SpecPublisher: setupChannel calls awaiting amqp.connect
    ptimers,    \* SpecPublisher: pending setTimeout calls of setupChannel
    pcalls,     \* SpecPublisher: publishOrderEvent calls made so far
    pused       \* SpecPublisher: the channel the last publish went out on

ledgerVars == <<row, call, scn>>
invVars == <<inv, queue, nPub, h, dlq>>
orderVars == <<ord, pu, pay, last>>
breakerVars == <<cb, opts, now, calls, done>>
numberVars == <<docs, sec, resp>>
publisherVars == <<pchannel, pconns, pN, psetups, ptimers, pcalls, pused>>
consumerVars ==
    <<channel, conns, consuming, nConn, timers, ready, unacked, tags, running,
      published>>
vars == <<ledgerVars, invVars, orderVars, breakerVars, numberVars, consumerVars, publisherVars>>

\* SpecOrder's variables while another specification runs
NoOrder ==
    [status |-> "none", items |-> <<>>, subtotal |-> 0, taxAmount |-> 0,
     discountAmount |-> 0, shippingAmount |-> 0, total |-> 0,
     discounts |-> 0, paymentStatus |-> "none", paidAt |-> FALSE,
     shippedAt |-> FALSE, deliveredAt |-> FALSE, completedAt |-> FALSE,
     cancelledAt |-> FALSE]
NoUpdate == [pc |-> "idle", productId |-> "none"]
NoPayment == [pc |-> "idle", order |-> NoOrder]
NoOp == [op |-> "none", events |-> <<>>]
OrderIdle == ord = NoOrder /\ pu = NoUpdate /\ pay = NoPayment /\ last = NoOp

\* SpecBreaker's variables while another specification runs
Callers == {"k1", "k2"}
\* the instance as the constructor leaves it (lastFailureTime 0: null)
NewBreaker ==
    [state |-> "CLOSED", failureCount |-> 0, successCount |-> 0,
     lastFailureTime |-> 0]
NoOptions ==
    [failureThreshold |-> 1, successThreshold |-> 1, resetTimeout |-> 1,
     fallback |-> FALSE, isFailure |-> "default"]
NoFire == [pc |-> "idle", probe |-> FALSE]
NoResult == [invoked |-> FALSE, error |-> "none", outcome |-> "none"]
BreakerIdle ==
    /\ cb = NewBreaker
    /\ opts = NoOptions
    /\ now = 1
    /\ calls = [c \in Callers |-> NoFire]
    /\ done = NoResult

\* SpecNumber's variables while another specification runs
OrderIds == {"o1", "o2"}
\* orderNumber not set: timestamp 0 and no random string
NoNumber == [timestamp |-> 0, randomStr |-> ""]
NoDocument == [orderNumber |-> NoNumber, persisted |-> FALSE]
NoSave == [id |-> "none", op |-> "none", ok |-> FALSE]
NumberIdle ==
    /\ docs = [o \in OrderIds |-> NoDocument]
    /\ sec = 1
    /\ resp = NoSave

\* SpecPublisher's variables while another specification runs
PublisherIdle ==
    /\ pchannel = 0
    /\ pconns = {}
    /\ pN = 0
    /\ psetups = 0
    /\ ptimers = 0
    /\ pcalls = 0
    /\ pused = 0

\* SpecConsumer's variables while another specification runs
ConnIds == 1..MaxConns
NoDelivery == [msg |-> "none", tag |-> 0]
ConsumerIdle ==
    /\ channel = 0
    /\ conns = {}
    /\ consuming = {}
    /\ nConn = 0
    /\ timers = 0
    /\ ready = <<>>
    /\ unacked = [id \in ConnIds |-> NoDelivery]
    /\ tags = [id \in ConnIds |-> 0]
    /\ running = {}
    /\ published = {}

Max(a, b) == IF a >= b THEN a ELSE b

(***************************************************************************)
(* Inventory model (product-service)                                       *)
(***************************************************************************)
\* a row as Inventory.create stores it: non-negative counters, inStock
\* derived by the beforeSave hook
RowsUpTo(n) ==
    { [quantity |-> q, reservedQuantity |-> r, inStock |-> (q > 0)] :
        q \in 0..n, r \in 0..n }

InventoryRows == RowsUpTo(MaxQty)

getAvailableStock(this) == Max(0, this.quantity - this.reservedQuantity)

beforeSave(inventory) ==
    [inventory EXCEPT !.inStock = ~(inventory.quantity <= 0)]

\* save(): the hook, then the row as persisted
save(this) == beforeSave(this)

Thrown(this, msg) == [ok |-> FALSE, err |-> msg, inst |-> this]
Saved(this) == [ok |-> TRUE, err |-> "", inst |-> save(this)]

reduceStockUnchecked(this, amount, isReserved) ==
    IF amount <= 0 THEN Thrown(this, "amount")
    ELSE IF isReserved
         THEN Saved([this EXCEPT !.reservedQuantity = @ - amount])
         ELSE Saved([this EXCEPT !.quantity = @ - amount])

reduceStock(this, amount, isReserved) ==
    IF amount <= 0 THEN Thrown(this, "amount")
    ELSE IF isReserved
         THEN IF this.reservedQuantity < amount THEN Thrown(this, "reserved")
              ELSE Saved([this EXCEPT !.reservedQuantity = @ - amount])
         ELSE IF this.quantity < amount THEN Thrown(this, "stock")
              ELSE Saved([this EXCEPT !.quantity = @ - amount])

reserveStockNoAvailableCheck(this, amount) ==
    IF amount <= 0 THEN Thrown(this, "amount")
    ELSE Saved([this EXCEPT !.reservedQuantity = @ + amount])

reserveStock(this, amount) ==
    IF amount <= 0 THEN Thrown(this, "amount")
    ELSE IF getAvailableStock(this) < amount THEN Thrown(this, "available")
         ELSE Saved([this EXCEPT !.reservedQuantity = @ + amount])

addStockReleasing(this, amount) ==
    IF amount <= 0 THEN Thrown(this, "amount")
    ELSE Saved([this EXCEPT !.quantity = @ + amount,
                            !.reservedQuantity = Max(0, @ - amount)])

addStock(this, amount) ==
    IF amount <= 0 THEN Thrown(this, "amount")
    ELSE Saved([this EXCEPT !.quantity = @ + amount])

(***************************************************************************)
(* Per-item bodies of the inventory event handlers, run to completion on   *)
(* one instance (the try block of one loop iteration).                     *)
(***************************************************************************)
\* order.paid without the release of the reservation
paidItemReduceOnly(this, quantity) == reduceStock(this, quantity, FALSE)

\* order.paid: release the reservation, then reduce the real stock; a throw
\* of the first call skips the second
paidItem(this, quantity) ==
    LET rel == reduceStock(this, quantity, TRUE)
    IN  IF rel.ok THEN reduceStock(rel.inst, quantity, FALSE) ELSE rel

\* order.cancelled: release the reservation only
cancelledItem(this, quantity) == reduceStock(this, quantity, TRUE)

NoCall == [op |-> "none", amount |-> 0, ok |-> FALSE, pre |-> [quantity |-> 0, reservedQuantity |-> 0, inStock |-> FALSE]]
NoScn == [phase |-> "none", n |-> 0, q0 |-> 0, r0 |-> 0]

(***************************************************************************)
(* Inventory consumer (product-service): queue, handleMessage, handlers    *)
(***************************************************************************)
\* the products with an inventory row: p1 has one, p2 was created without
Stocked == {"p1"}
\* consumer instances bound to product_service_queue, each with prefetch 1
Consumers == {"c1", "c2"}

ListEvents == {"order.created", "order.paid", "order.cancelled", "order.refunded"}
ItemEvents == {"order.item.added", "order.item.removed"}

Item(p, q) == [productId |-> p, quantity |-> q]

\* the item lists of the order events: two units of p1, or an item of p2
\* (no row) followed by one unit of p1
ItemLists == {<<Item("p1", 2)>>, <<Item("p2", 1), Item("p1", 1)>>}

Body(event, parse, hasItems, items) ==
    [event |-> event, parse |-> parse, hasItems |-> hasItems, items |-> items]

\* what a publisher can put on the queue: the order events with their item
\* lists, the item events with productId and quantity, order.paid as the
\* payment webhook publishes it (no items), and a payload that is not JSON
Bodies ==
    {Body(e, TRUE, TRUE, l) : e \in ListEvents, l \in ItemLists}
    \cup {Body(e, TRUE, TRUE, <<Item("p1", 1)>>) : e \in ItemEvents}
    \cup {Body("order.paid", TRUE, FALSE, <<>>)}
    \cup {Body("unparsed", FALSE, FALSE, <<>>)}

\* a message at the broker: the payload, the broker's redelivered flag, and
\* the units of stock reduced so far on its behalf
Message(body) ==
    [event |-> body.event, parse |-> body.parse,
     hasItems |-> body.hasItems, items |-> body.items,
     redelivered |-> FALSE, reduced |-> 0]

NoMsg == Message(Body("none", FALSE, FALSE, <<>>))
NoLoc == [quantity |-> 0, reservedQuantity |-> 0, inStock |-> FALSE]
Idle == [pc |-> "idle", msg |-> NoMsg, i |-> 0, loc |-> NoLoc]

Counters(r) == [quantity |-> r.quantity, reservedQuantity |-> r.reservedQuantity]

\* SpecInv's variables while another specification runs
InvIdle ==
    /\ inv = [p \in Stocked |-> NoLoc]
    /\ queue = <<>>
    /\ nPub = 0
    /\ h = [c \in Consumers |-> Idle]
    /\ dlq = 0

InitInv ==
    /\ inv \in [Stocked -> {r \in RowsUpTo(MaxStock) : r.reservedQuantity <= r.quantity}]
    /\ queue = <<>>
    /\ nPub = 0
    /\ h = [c \in Consumers |-> Idle]
    /\ dlq = 0
    /\ row = NoLoc
    /\ call = NoCall
    /\ scn = NoScn
    /\ OrderIdle
    /\ BreakerIdle
    /\ NumberIdle
    /\ ConsumerIdle
    /\ PublisherIdle

\* publishOrderEvent as the queue sees it
Publish(body) ==
    /\ nPub < MaxMsgs
    /\ Len(queue) < MaxQueue
    /\ nPub' = nPub + 1
    /\ queue' = Append(queue, Message(body))
    /\ UNCHANGED <<inv, h, dlq, ledgerVars, orderVars, breakerVars, numberVars, consumerVars, publisherVars>>

\* JSON.parse throws a SyntaxError: nack without requeue, and the broker
\* dead-letters the message
DeliverUnparseableRequeue(c) ==
    /\ h[c].pc = "idle"
    /\ queue # <<>>
    /\ ~Head(queue).parse
    /\ queue' = <<[Head(queue) EXCEPT !.redelivered = TRUE]>> \o Tail(queue)
    /\ h' = [h EXCEPT ![c] = Idle]
    /\ UNCHANGED <<inv, nPub, dlq, ledgerVars, orderVars, breakerVars, numberVars, consumerVars, publisherVars>>

DeliverUnparseable(c) ==
    /\ h[c].pc = "idle"
    /\ queue # <<>>
    /\ ~Head(queue).parse
    /\ queue' = Tail(queue)
    /\ dlq' = dlq + 1
    /\ h' = [h EXCEPT ![c] = Idle]
    /\ UNCHANGED <<inv, nPub, ledgerVars, orderVars, breakerVars, numberVars, consumerVars, publisherVars>>

\* data.items is undefined: items.length throws a TypeError before the first
\* await, outside the per-item try: nack with requeue
DeliverNoItems(c) ==
    /\ h[c].pc = "idle"
    /\ queue # <<>>
    /\ Head(queue).parse
    /\ ~Head(queue).hasItems
    /\ queue' = <<[Head(queue) EXCEPT !.redelivered = TRUE]>> \o Tail(queue)
    /\ h' = [h EXCEPT ![c] = Idle]
    /\ UNCHANGED <<inv, nPub, dlq, ledgerVars, orderVars, breakerVars, numberVars, consumerVars, publisherVars>>

\* the message parses and its handler starts on the first item
Deliver(c) ==
    /\ h[c].pc = "idle"
    /\ queue # <<>>
    /\ Head(queue).parse
    /\ Head(queue).hasItems
    /\ queue' = Tail(queue)
    /\ h' = [h EXCEPT ![c] = [Idle EXCEPT !.pc = "find", !.msg = Head(queue), !.i = 1]]
    /\ UNCHANGED <<inv, nPub, dlq, ledgerVars, orderVars, breakerVars, numberVars, consumerVars, publisherVars>>

\* a loop that a failed item ends: the handler returns at once
NextItemBreaks(hc) ==
    [hc EXCEPT !.pc = "ack", !.loc = NoLoc]

\* the loop goes on to the next item, or the handler returns
NextItem(hc) ==
    IF hc.i < Len(hc.msg.items)
    THEN [hc EXCEPT !.pc = "find", !.i = @ + 1, !.loc = NoLoc]
    ELSE [hc EXCEPT !.pc = "ack", !.loc = NoLoc]

CurItem(c) == h[c].msg.items[h[c].i]

\* Inventory.findOne rejects (the datastore is unreachable): the per-item
\* catch logs it
FindFails(c) ==
    /\ h[c].pc = "find"
    /\ h' = [h EXCEPT ![c] = NextItem(h[c])]
    /\ UNCHANGED <<inv, queue, nPub, dlq, ledgerVars, orderVars, breakerVars, numberVars, consumerVars, publisherVars>>

\* Inventory.findOne resolves to null
FindNone(c) ==
    /\ h[c].pc = "find"
    /\ CurItem(c).productId \notin DOMAIN inv
    /\ h' = [h EXCEPT ![c] = NextItem(h[c])]
    /\ UNCHANGED <<inv, queue, nPub, dlq, ledgerVars, orderVars, breakerVars, numberVars, consumerVars, publisherVars>>

\* Inventory.findOne resolves to an instance holding the row as it is now
FindRow(c) ==
    /\ h[c].pc = "find"
    /\ CurItem(c).productId \in DOMAIN inv
    /\ h' = [h EXCEPT ![c].pc = "op1", ![c].loc = inv[CurItem(c).productId]]
    /\ UNCHANGED <<inv, queue, nPub, dlq, ledgerVars, orderVars, breakerVars, numberVars, consumerVars, publisherVars>>

\* the method the handler calls on its instance at this point
Method(hc) ==
    LET e == hc.msg.event
        q == hc.msg.items[hc.i].quantity
    IN  IF e \in {"order.created", "order.item.added"} THEN reserveStock(hc.loc, q)
        ELSE IF e = "order.refunded" THEN addStock(hc.loc, q)
        ELSE IF e = "order.paid" /\ hc.pc = "op2" THEN reduceStock(hc.loc, q, FALSE)
        ELSE reduceStock(hc.loc, q, TRUE)

\* the method throws on its precondition: the per-item catch logs it
OpThrows(c) ==
    /\ h[c].pc \in {"op1", "op2"}
    /\ ~Method(h[c]).ok
    /\ h' = [h EXCEPT ![c] = NextItem(h[c])]
    /\ UNCHANGED <<inv, queue, nPub, dlq, ledgerVars, orderVars, breakerVars, numberVars, consumerVars, publisherVars>>

\* the method passes its checks and save() rejects
SaveFails(c) ==
    /\ h[c].pc \in {"op1", "op2"}
    /\ Method(h[c]).ok
    /\ h' = [h EXCEPT ![c] = NextItem(h[c])]
    /\ UNCHANGED <<inv, queue, nPub, dlq, ledgerVars, orderVars, breakerVars, numberVars, consumerVars, publisherVars>>

\* save() of an instance: an UPDATE of the fields that differ from the
\* values the instance was loaded with
persist(db, before, after) ==
    [f \in DOMAIN db |-> IF after[f] # before[f] THEN after[f] ELSE db[f]]

\* the counters b with the change from before to after added to them
Booked(b, before, after) ==
    [quantity |-> b.quantity + (after.quantity - before.quantity),
     reservedQuantity |-> b.reservedQuantity + (after.reservedQuantity - before.reservedQuantity)]

\* the method passes its checks and save() writes the row
OpSaves(c) ==
    LET hc == h[c]
        p == CurItem(c).productId
        res == Method(hc)
        more == hc.msg.event = "order.paid" /\ hc.pc = "op1"
    IN  /\ hc.pc \in {"op1", "op2"}
        /\ res.ok
        /\ res.inst.quantity <= MaxStock
        /\ inv' = [inv EXCEPT ![p] = persist(inv[p], hc.loc, res.inst)]
        /\ h' = [h EXCEPT ![c] =
                 IF more THEN [hc EXCEPT !.pc = "op2", !.loc = res.inst]
                 ELSE IF hc.pc = "op2"
                      THEN NextItem([hc EXCEPT !.msg.reduced = @ + CurItem(c).quantity])
                      ELSE NextItem(hc)]
        /\ UNCHANGED <<queue, nPub, dlq, ledgerVars, orderVars, breakerVars, numberVars, consumerVars, publisherVars>>

\* channel.ack(msg) reaches the broker
Ack(c) ==
    /\ h[c].pc = "ack"
    /\ h' = [h EXCEPT ![c] = Idle]
    /\ UNCHANGED <<inv, queue, nPub, dlq, ledgerVars, orderVars, breakerVars, numberVars, consumerVars, publisherVars>>

\* the connection closes before the broker has the acknowledgement: the
\* broker puts the unacknowledged message back on the queue, flagged as
\* redelivered (this happens to a message at most once here)
AckLost(c) ==
    /\ h[c].pc = "ack"
    /\ ~h[c].msg.redelivered
    /\ queue' = <<[h[c].msg EXCEPT !.redelivered = TRUE]>> \o queue
    /\ h' = [h EXCEPT ![c] = Idle]
    /\ UNCHANGED <<inv, nPub, dlq, ledgerVars, orderVars, breakerVars, numberVars, consumerVars, publisherVars>>

NextInv ==
    \/ \E b \in Bodies : Publish(b)
    \/ \E c \in Consumers : DeliverUnparseable(c)
    \/ \E c \in Consumers : DeliverNoItems(c)
    \/ \E c \in Consumers : Deliver(c)
    \/ \E c \in Consumers : FindFails(c)
    \/ \E c \in Consumers : FindNone(c)
    \/ \E c \in Consumers : FindRow(c)
    \/ \E c \in Consumers : OpThrows(c)
    \/ \E c \in Consumers : SaveFails(c)
    \/ \E c \in Consumers : OpSaves(c)
    \/ \E c \in Consumers : Ack(c)
    \/ \E c \in Consumers : AckLost(c)

SpecInv == InitInv /\ [][NextInv]_vars

\* what the consumer instances and the broker do with the queue's messages
Consume ==
    \E c \in Consumers :
        \/ DeliverUnparseable(c)
        \/ DeliverNoItems(c)
        \/ Deliver(c)
        \/ FindFails(c)
        \/ FindNone(c)
        \/ FindRow(c)
        \/ OpThrows(c)
        \/ SaveFails(c)
        \/ OpSaves(c)
        \/ Ack(c)
        \/ AckLost(c)

\* the consumer with instances that keep consuming and a datastore that keeps
\* answering
SpecInvLive == InitInv /\ [][NextInv]_vars /\ WF_vars(Consume)

\* the item lists of order.created with an item that cannot be reserved
\* after one that can: p2 has no row, three units are more than any stock
CreatedLists ==
    {<<Item("p1", 1), Item("p2", 1)>>,
     <<Item("p1", 1), Item("p1", MaxStock + 1)>>,
     <<Item("p2", 1), Item("p1", 1)>>}

\* the consumer with nothing but order.created on its queue
NextCreated ==
    \/ \E l \in CreatedLists : Publish(Body("order.created", TRUE, TRUE, l))
    \/ \E c \in Consumers : Deliver(c)
    \/ \E c \in Consumers : FindFails(c)
    \/ \E c \in Consumers : FindNone(c)
    \/ \E c \in Consumers : FindRow(c)
    \/ \E c \in Consumers : OpThrows(c)
    \/ \E c \in Consumers : SaveFails(c)
    \/ \E c \in Consumers : OpSaves(c)
    \/ \E c \in Consumers : Ack(c)
    \/ \E c \in Consumers : AckLost(c)

SpecCreated == InitInv /\ [][NextCreated]_vars

(***************************************************************************)
(* The ledger in isolation                                                 *)
(***************************************************************************)
InitLedger ==
    /\ row \in InventoryRows
    /\ call = NoCall
    /\ scn = NoScn
    /\ InvIdle
    /\ OrderIdle
    /\ BreakerIdle
    /\ NumberIdle
    /\ ConsumerIdle
    /\ PublisherIdle

Called(op, amount, res) ==
    call' = [op |-> op, amount |-> amount, ok |-> res.ok, pre |-> row]

\* scenario after a pay or cancel of the amount just reserved
Follow(phase, amount) ==
    IF scn.phase = "reserved" /\ scn.n = amount
    THEN [scn EXCEPT !.phase = phase]
    ELSE NoScn

LReserve(amount) ==
    LET res == reserveStock(row, amount)
    IN  /\ row' = res.inst
        /\ Called("reserveStock", amount, res)
        /\ scn' = IF getAvailableStock(row) >= amount
                  THEN [phase |-> "reserved", n |-> amount,
                        q0 |-> row.quantity, r0 |-> row.reservedQuantity]
                  ELSE NoScn
        /\ UNCHANGED <<invVars, orderVars, breakerVars, numberVars, consumerVars, publisherVars>>

LPaid(amount) ==
    LET res == paidItem(row, amount)
    IN  /\ row' = res.inst
        /\ Called("paid", amount, res)
        /\ scn' = Follow("paid", amount)
        /\ UNCHANGED <<invVars, orderVars, breakerVars, numberVars, consumerVars, publisherVars>>

LCancelled(amount) ==
    LET res == cancelledItem(row, amount)
    IN  /\ row' = res.inst
        /\ Called("cancelled", amount, res)
        /\ scn' = Follow("cancelled", amount)
        /\ UNCHANGED <<invVars, orderVars, breakerVars, numberVars, consumerVars, publisherVars>>

LRefunded(amount) ==
    LET res == addStock(row, amount)
    IN  /\ row.quantity + amount <= MaxQty
        /\ row' = res.inst
        /\ Called("addStock", amount, res)
        /\ scn' = IF scn.phase = "paid" /\ scn.n = amount /\ call.ok
                  THEN [scn EXCEPT !.phase = "refunded"]
                  ELSE NoScn
        /\ UNCHANGED <<invVars, orderVars, breakerVars, numberVars, consumerVars, publisherVars>>

NextLedger ==
    \/ \E a \in Amounts : LReserve(a)
    \/ \E a \in Amounts : LPaid(a)
    \/ \E a \in Amounts : LCancelled(a)
    \/ \E a \in Amounts : LRefunded(a)

SpecLedger == InitLedger /\ [][NextLedger]_vars

(***************************************************************************)
(* The Order model (order-service)                                         *)
(***************************************************************************)
Statuses ==
    {"pending", "processing", "payment_pending", "paid", "shipped",
     "delivered", "completed", "cancelled", "refunded", "failed", "on_hold"}

\* the statuses in which the controllers refuse to change items and discounts
LockedStatuses == {"shipped", "delivered", "completed", "cancelled", "refunded"}

\* the statuses that the order-service consumer's updateMany filters select
OpenStatuses == {"pending", "processing", "payment_pending"}

OrderProducts == {"p1", "p2"}
\* prices the product service answers with; amounts are multiples of ten so
\* that the percentage of a subtotal is a whole number
Prices == {10, 20}
\* p2 is on sale, p1 is not
SalePriceOf(productId) == IF productId = "p2" THEN 10 ELSE 0
ShippingCosts == {5}
DiscountPct == 10
\* the amounts of a fixed_amount discount
FixedAmounts == {5}

Discounts ==
    {[type |-> "percentage", amount |-> DiscountPct],
     [type |-> "free_shipping", amount |-> 0]}
    \cup {[type |-> "fixed_amount", amount |-> a] : a \in FixedAmounts}

\* validateOrderItems / addOrderItem: the item built from the product service's
\* answer, subtotal and total still to be calculated
ValidatedItem(productId, price, quantity) ==
    [productId |-> productId, price |-> price,
     salePrice |-> SalePriceOf(productId), quantity |-> quantity,
     subtotal |-> 0, taxes |-> 0, discount |-> 0, total |-> 0]

RECURSIVE SumSubtotal(_)
SumSubtotal(items) ==
    IF Len(items) = 0 THEN 0
    ELSE Head(items).subtotal + SumSubtotal(Tail(items))

RECURSIVE SumTaxes(_)
SumTaxes(items) ==
    IF Len(items) = 0 THEN 0
    ELSE Head(items).taxes + SumTaxes(Tail(items))

\* the forEach body with an itemSubtotal added to the stored one
calculateItemCompounding(item) ==
    LET price == IF item.salePrice > 0 THEN item.salePrice ELSE item.price
        itemSubtotal == item.subtotal + price * item.quantity
    IN  [item EXCEPT !.subtotal = itemSubtotal,
                     !.total = itemSubtotal + item.taxes - item.discount]

\* the forEach body of calculateTotals
calculateItem(item) ==
    LET price == IF item.salePrice > 0 THEN item.salePrice ELSE item.price
        itemSubtotal == price * item.quantity
    IN  [item EXCEPT !.subtotal = itemSubtotal,
                     !.total = itemSubtotal + item.taxes - item.discount]

calculateTotalsNoDiscount(this) ==
    LET items == [k \in 1..Len(this.items) |-> calculateItem(this.items[k])]
    IN  [this EXCEPT !.items = items,
                     !.subtotal = SumSubtotal(items),
                     !.taxAmount = SumTaxes(items),
                     !.total = SumSubtotal(items) + SumTaxes(items) + this.shippingAmount]

calculateTotals(this) ==
    LET items == [k \in 1..Len(this.items) |-> calculateItem(this.items[k])]
        subtotal == SumSubtotal(items)
        taxAmount == SumTaxes(items)
    IN  [this EXCEPT !.items = items,
                     !.subtotal = subtotal,
                     !.taxAmount = taxAmount,
                     !.total = subtotal + taxAmount - this.discountAmount
                               + this.shippingAmount]

\* a timestamp field is TRUE once it holds a date
updateStatus(this, newStatus) ==
    [this EXCEPT !.status = newStatus,
                 !.completedAt = @ \/ newStatus = "completed",
                 !.cancelledAt = @ \/ newStatus = "cancelled",
                 !.shippedAt = @ \/ newStatus = "shipped",
                 !.deliveredAt = @ \/ newStatus = "delivered",
                 !.paidAt = @ \/ newStatus = "paid"]

\* items.findIndex(i => i.productId === productId), 0 when there is none
findIndex(items, productId) ==
    IF \E k \in 1..Len(items) : items[k].productId = productId
    THEN CHOOSE k \in 1..Len(items) :
             /\ items[k].productId = productId
             /\ \A j \in 1..(k - 1) : items[j].productId # productId
    ELSE 0

addItem(this, item) ==
    LET k == findIndex(this.items, item.productId)
        old == this.items[k]
        quantity == old.quantity + item.quantity
        grown == [old EXCEPT !.quantity = quantity,
                             !.subtotal = old.price * quantity,
                             !.total = old.price * quantity + old.taxes - old.discount]
        newItem == [item EXCEPT !.subtotal = item.price * item.quantity,
                                !.total = item.price * item.quantity
                                          + item.taxes - item.discount]
    IN  calculateTotals(
            [this EXCEPT !.items = IF k >= 1 THEN [this.items EXCEPT ![k] = grown]
                                   ELSE Append(this.items, newItem)])

removeItem(this, productId) ==
    LET k == findIndex(this.items, productId)
    IN  IF k >= 1
        THEN calculateTotals(
                 [this EXCEPT !.items = SubSeq(this.items, 1, k - 1)
                                        \o SubSeq(this.items, k + 1, Len(this.items))])
        ELSE this

\* applyDiscount with a percentage that replaces the discountAmount
applyDiscountReplacing(this, discount) ==
    LET pushed == [this EXCEPT !.discounts = @ + 1]
        amounts ==
            IF discount.type = "percentage"
            THEN [pushed EXCEPT !.discountAmount =
                                    (this.subtotal * discount.amount) \div 100]
            ELSE IF discount.type = "fixed_amount"
            THEN [pushed EXCEPT !.discountAmount = @ + discount.amount]
            ELSE IF discount.type = "free_shipping"
            THEN [pushed EXCEPT !.discountAmount = @ + this.shippingAmount,
                                !.shippingAmount = 0]
            ELSE pushed
    IN  [amounts EXCEPT !.total = amounts.subtotal + amounts.taxAmount
                                  - amounts.discountAmount + amounts.shippingAmount]

applyDiscount(this, discount) ==
    LET pushed == [this EXCEPT !.discounts = @ + 1]
        amounts ==
            IF discount.type = "percentage"
            THEN [pushed EXCEPT !.discountAmount =
                                    @ + (this.subtotal * discount.amount) \div 100]
            ELSE IF discount.type = "fixed_amount"
            THEN [pushed EXCEPT !.discountAmount = @ + discount.amount]
            ELSE IF discount.type = "free_shipping"
            THEN [pushed EXCEPT !.discountAmount = @ + this.shippingAmount,
                                !.shippingAmount = 0]
            ELSE pushed
    IN  [amounts EXCEPT !.total = amounts.subtotal + amounts.taxAmount
                                  - amounts.discountAmount + amounts.shippingAmount]

\* paymentInfo.status is "none" when the update carries no status
updatePayment(this, paymentInfo) ==
    LET merged == [this EXCEPT
                      !.paymentStatus = IF paymentInfo.status = "none" THEN @
                                        ELSE paymentInfo.status,
                      !.paidAt = IF paymentInfo.paidAt = "absent" THEN @
                                 ELSE paymentInfo.paidAt = "date"]
    IN  IF paymentInfo.status = "completed" /\ this.status = "payment_pending"
        THEN updateStatus(merged, "paid")
        ELSE merged

updateShipping(this, shippingInfo) ==
    IF shippingInfo.status = "shipped" /\ this.status = "processing"
    THEN updateStatus(this, "shipped")
    ELSE IF shippingInfo.status = "delivered" /\ this.status = "shipped"
    THEN updateStatus(this, "delivered")
    ELSE this

\* the schema's validators, run by save(): min 0 on the amounts, min 1 on the
\* quantity, the status in the enum
Valid(this) ==
    /\ this.status \in Statuses
    /\ this.subtotal >= 0 /\ this.taxAmount >= 0 /\ this.discountAmount >= 0
    /\ this.shippingAmount >= 0 /\ this.total >= 0
    /\ \A k \in 1..Len(this.items) :
          /\ this.items[k].price >= 0 /\ this.items[k].salePrice >= 0
          /\ this.items[k].quantity >= 1
          /\ this.items[k].subtotal >= 0 /\ this.items[k].taxes >= 0
          /\ this.items[k].discount >= 0 /\ this.items[k].total >= 0

(***************************************************************************)
(* The order controllers (order-service)                                   *)
(***************************************************************************)
Roles == {"admin", "owner", "other"}
\* the quantity of an add request
Quantities == {1}

\* the items of a create request: productId and quantity
Wanted(productId, quantity) == [productId |-> productId, quantity |-> quantity]
RequestItems ==
    {<<>>,
     <<Wanted("p1", 1)>>,
     <<Wanted("p2", 1)>>,
     <<Wanted("p1", 1), Wanted("p2", 1)>>}

PaymentMethods == {"credit_card", "cash"}

InitOrder ==
    /\ OrderIdle
    /\ BreakerIdle
    /\ row = NoLoc
    /\ call = NoCall
    /\ scn = NoScn
    /\ InvIdle
    /\ NumberIdle
    /\ ConsumerIdle
    /\ PublisherIdle

\* an event as publishOrderEvent sends it: its routing key and the keys of
\* its payload that identify the order and list its items
Event(event, items) ==
    [event |-> event,
     keys |-> {"orderId", "orderNumber", "userId"}
              \cup (IF items THEN {"items"} ELSE {})]

\* the operation that ran last and the events it published (the response
\* code of a request is not kept)
Responds(op, code, events) ==
    last' = [op |-> op, events |-> events]

\* a request that ends in next(new AppError(...)) or in a failed save
Rejects(op, code) ==
    /\ Responds(op, code, <<>>)
    /\ UNCHANGED <<ord, pu, pay, ledgerVars, invVars, breakerVars, numberVars, consumerVars, publisherVars>>

\* order.save() and the events published after it
Saves(op, code, order, events) ==
    IF Valid(order)
    THEN /\ ord' = order
         /\ Responds(op, code, events)
         /\ UNCHANGED <<pu, pay, ledgerVars, invVars, breakerVars, numberVars, consumerVars, publisherVars>>
    ELSE Rejects(op, 500)

\* createOrder: the only order of the model has not been created yet
CreateOrder(items, price, cost, method) ==
    /\ ord.status = "none"
    /\ IF Len(items) = 0
       THEN Rejects("createOrder", 400)
       ELSE LET validatedItems ==
                    [k \in 1..Len(items) |->
                        ValidatedItem(items[k].productId, price[items[k].productId],
                                      items[k].quantity)]
                order == calculateTotals(
                             [NoOrder EXCEPT !.items = validatedItems,
                                             !.shippingAmount = cost,
                                             !.paymentStatus = "pending"])
                initialStatus == IF method = "credit_card" THEN "payment_pending"
                                 ELSE "pending"
            IN  Saves("createOrder", 201, [order EXCEPT !.status = initialStatus],
                      <<Event("order.created", TRUE)>>)

AddOrderItem(role, productId, quantity, price) ==
    /\ IF quantity <= 0 THEN Rejects("addOrderItem", 400)
       ELSE IF ord.status = "none" THEN Rejects("addOrderItem", 404)
       ELSE IF ord.status \in LockedStatuses THEN Rejects("addOrderItem", 400)
       ELSE IF role \notin {"admin", "owner"} THEN Rejects("addOrderItem", 403)
       ELSE LET order == addItem(ord, ValidatedItem(productId, price, quantity))
            IN  /\ \A k \in 1..Len(order.items) : order.items[k].quantity <= MaxItemQty
                /\ Saves("addOrderItem", 200, order, <<Event("order.item.added", FALSE)>>)

RemoveOrderItemUnlocked(role, productId) ==
    /\ IF ord.status = "none" THEN Rejects("removeOrderItem", 404)
       ELSE IF role \notin {"admin", "owner"} THEN Rejects("removeOrderItem", 403)
       ELSE IF findIndex(ord.items, productId) = 0 THEN Rejects("removeOrderItem", 404)
       ELSE Saves("removeOrderItem", 200, removeItem(ord, productId),
                  <<Event("order.item.removed", FALSE)>>)

RemoveOrderItem(role, productId) ==
    /\ IF ord.status = "none" THEN Rejects("removeOrderItem", 404)
       ELSE IF ord.status \in LockedStatuses THEN Rejects("removeOrderItem", 400)
       ELSE IF role \notin {"admin", "owner"} THEN Rejects("removeOrderItem", 403)
       ELSE IF findIndex(ord.items, productId) = 0 THEN Rejects("removeOrderItem", 404)
       ELSE Saves("removeOrderItem", 200, removeItem(ord, productId),
                  <<Event("order.item.removed", FALSE)>>)

\* the controller builds the 10% percentage discount; the other two types of
\* the discount schema go through the same method
ApplyDiscount(role, discount) ==
    /\ IF ord.status = "none" THEN Rejects("applyDiscount", 404)
       ELSE IF ord.status \in LockedStatuses THEN Rejects("applyDiscount", 400)
       ELSE IF role \notin {"admin", "owner"} THEN Rejects("applyDiscount", 403)
       ELSE /\ ord.discounts < MaxDiscounts
            /\ Saves("applyDiscount", 200, applyDiscount(ord, discount), <<>>)

\* order.status_updated as updateOrderStatus builds it after
\* order.updateStatus(status) and order.save(): prevStatus is read from the
\* order, newStatus from the request
StatusUpdated(order, status) ==
    [event |-> "order.status_updated",
     keys |-> {"orderId", "orderNumber", "userId"},
     prevStatus |-> order.status,
     newStatus |-> status]

UpdateOrderStatus(role, status) ==
    /\ IF ord.status = "none" THEN Rejects("updateOrderStatus", 404)
       ELSE IF role # "admin" THEN Rejects("updateOrderStatus", 403)
       ELSE Saves("updateOrderStatus", 200, updateStatus(ord, status),
                  <<StatusUpdated(updateStatus(ord, status), status)>>
                  \o (IF status = "paid" THEN <<Event("order.paid", TRUE)>>
                      ELSE IF status = "cancelled"
                      THEN <<Event("order.cancelled", TRUE)>>
                      ELSE <<>>))

UpdatePayment(role, paymentInfo) ==
    /\ IF ord.status = "none" THEN Rejects("updatePayment", 404)
       ELSE IF role \notin {"admin", "owner"} THEN Rejects("updatePayment", 403)
       ELSE Saves("updatePayment", 200, updatePayment(ord, paymentInfo),
                  IF paymentInfo.status = "completed"
                  THEN <<Event("order.paid", TRUE)>> ELSE <<>>)

UpdateShipping(role, shippingInfo) ==
    /\ IF ord.status = "none" THEN Rejects("updateShipping", 404)
       ELSE IF role # "admin" THEN Rejects("updateShipping", 403)
       ELSE Saves("updateShipping", 200, updateShipping(ord, shippingInfo),
                  IF shippingInfo.status = "shipped"
                  THEN <<Event("order.shipped", FALSE)>>
                  ELSE IF shippingInfo.status = "delivered"
                  THEN <<Event("order.delivered", FALSE)>>
                  ELSE <<>>)

CancelOrderAnyOpenStatus(role) ==
    /\ IF ord.status = "none" THEN Rejects("cancelOrder", 404)
       ELSE IF ord.status \in {"delivered", "completed", "cancelled", "refunded"}
       THEN Rejects("cancelOrder", 400)
       ELSE IF role \notin {"admin", "owner"} THEN Rejects("cancelOrder", 403)
       ELSE Saves("cancelOrder", 200, updateStatus(ord, "cancelled"),
                  <<Event("order.cancelled", TRUE)>>)

CancelOrder(role) ==
    /\ IF ord.status = "none" THEN Rejects("cancelOrder", 404)
       ELSE IF ord.status \in {"delivered", "completed", "cancelled", "refunded"}
       THEN Rejects("cancelOrder", 400)
       ELSE IF role \notin {"admin", "owner"} THEN Rejects("cancelOrder", 403)
       ELSE IF role # "admin" /\ ord.status \notin {"pending", "payment_pending"}
       THEN Rejects("cancelOrder", 403)
       ELSE Saves("cancelOrder", 200, updateStatus(ord, "cancelled"),
                  <<Event("order.cancelled", TRUE)>>)

(***************************************************************************)
(* The payment controller and its webhook (order-service)                  *)
(***************************************************************************)
\* what processPaymentByMethod answers for the supported methods
PaymentResults == {"completed", "pending"}

\* processPayment up to the first await that follows the order's update:
\* publishOrderEvent for a completed payment, order.save() for a pending one
ProcessPayment(role, result) ==
    /\ pay.pc = "idle"
    /\ IF ord.status = "none" THEN Rejects("processPayment", 404)
       ELSE IF role \notin {"admin", "owner"} THEN Rejects("processPayment", 403)
       ELSE IF ord.paymentStatus = "completed" THEN Rejects("processPayment", 400)
       ELSE IF ord.status = "cancelled" THEN Rejects("processPayment", 400)
       ELSE LET paid == updatePayment(ord,
                            [status |-> result,
                             paidAt |-> IF result = "completed" THEN "date"
                                        ELSE "undefined"])
                order == IF result = "completed" THEN updateStatus(paid, "paid")
                         ELSE IF result = "pending"
                         THEN updateStatus(paid, "payment_pending")
                         ELSE paid
            IN  IF result = "completed"
                THEN /\ pay' = [pc |-> "save", order |-> order]
                     /\ Responds("processPayment", 0, <<Event("order.paid", TRUE)>>)
                     /\ UNCHANGED <<ord, pu, ledgerVars, invVars, breakerVars, numberVars, consumerVars, publisherVars>>
                ELSE Saves("processPayment", 200, order, <<>>)

\* order.save() of a completed payment, after the event: the paths the
\* request modified (status, payment) are written
ProcessPaymentSave ==
    /\ pay.pc = "save"
    /\ ord' = IF Valid(pay.order)
              THEN [ord EXCEPT !.status = pay.order.status,
                               !.paymentStatus = pay.order.paymentStatus,
                               !.paidAt = pay.order.paidAt]
              ELSE ord
    /\ pay' = NoPayment
    /\ Responds("processPayment", 200, <<>>)
    /\ UNCHANGED <<pu, ledgerVars, invVars, breakerVars, numberVars, consumerVars, publisherVars>>

\* order.save() rejects: the catch hands the error to next()
ProcessPaymentSaveFails ==
    /\ pay.pc = "save"
    /\ pay' = NoPayment
    /\ Responds("processPayment", 500, <<>>)
    /\ UNCHANGED <<ord, pu, ledgerVars, invVars, breakerVars, numberVars, consumerVars, publisherVars>>

ProcessRefund(full) ==
    /\ IF ord.status = "none" THEN Rejects("processRefund", 404)
       ELSE IF ord.paymentStatus # "completed" THEN Rejects("processRefund", 400)
       ELSE LET refunded == [ord EXCEPT !.paymentStatus = "refunded"]
            IN  Saves("processRefund", 200,
                      IF full THEN updateStatus(refunded, "refunded") ELSE refunded,
                      <<Event("order.refunded", TRUE)>>)

HandlePaymentSuccess ==
    /\ ord.status # "none"
    /\ Saves("handlePaymentSuccess", 200,
             updateStatus(updatePayment(ord, [status |-> "completed",
                                              paidAt |-> "date"]), "paid"),
             <<Event("order.paid", FALSE)>>)

HandlePaymentFailure ==
    /\ ord.status # "none"
    /\ Saves("handlePaymentFailure", 200,
             updateStatus(updatePayment(ord, [status |-> "failed",
                                              paidAt |-> "absent"]),
                          "payment_pending"),
             <<>>)

HandlePaymentRefund(full) ==
    /\ ord.status # "none"
    /\ LET refunded == [ord EXCEPT !.paymentStatus = "refunded"]
       IN  Saves("handlePaymentRefund", 200,
                 IF full THEN updateStatus(refunded, "refunded") ELSE refunded,
                 <<Event("order.refunded", FALSE)>>)

(***************************************************************************)
(* The order-service consumer                                              *)
(***************************************************************************)
\* Order.updateMany of the deactivated user's open orders
HandleUserDeactivated ==
    /\ ord.status # "none"
    /\ ord' = IF ord.status \in OpenStatuses THEN [ord EXCEPT !.status = "on_hold"]
              ELSE ord
    /\ Responds("handleUserDeactivated", 0, <<>>)
    /\ UNCHANGED <<pu, pay, ledgerVars, invVars, breakerVars, numberVars, consumerVars, publisherVars>>

\* the filter of handleProductUpdated's updateMany and find
Affected(order, productId) ==
    /\ order.status \in OpenStatuses
    /\ findIndex(order.items, productId) # 0

\* handleProductUpdated up to the end of Order.updateMany: every item of the
\* product in an open order gets the new price (price 0: the event has none)
UpdateManyPrice(productId, price) ==
    /\ pu.pc = "idle"
    /\ ord.status # "none"
    /\ ord' = IF Affected(ord, productId) /\ price # 0
              THEN [ord EXCEPT !.items =
                        [k \in 1..Len(ord.items) |->
                            IF ord.items[k].productId = productId
                            THEN [ord.items[k] EXCEPT !.price = price]
                            ELSE ord.items[k]]]
              ELSE ord
    /\ pu' = [pc |-> "find", productId |-> productId]
    /\ Responds("handleProductUpdated", 0, <<>>)
    /\ UNCHANGED <<pay, ledgerVars, invVars, breakerVars, numberVars, consumerVars, publisherVars>>

\* Order.find, then calculateTotals() and save() of the affected order; a
\* save that fails validation ends in the handler's catch
RecalculateAffected ==
    /\ pu.pc = "find"
    /\ ord' = IF Affected(ord, pu.productId) /\ Valid(calculateTotals(ord))
              THEN calculateTotals(ord)
              ELSE ord
    /\ pu' = NoUpdate
    /\ Responds("handleProductUpdated", 0, <<>>)
    /\ UNCHANGED <<pay, ledgerVars, invVars, breakerVars, numberVars, consumerVars, publisherVars>>

\* Order.find or save() rejects: the handler's catch logs it
RecalculateFails ==
    /\ pu.pc = "find"
    /\ pu' = NoUpdate
    /\ Responds("handleProductUpdated", 0, <<>>)
    /\ UNCHANGED <<ord, pay, ledgerVars, invVars, breakerVars, numberVars, consumerVars, publisherVars>>

\* the order's contents: creation, the owner's item and discount requests,
\* the admin's status updates that take the order out of the open statuses,
\* and the propagation of product.updated
NextOrder ==
    \/ \E items \in RequestItems, price \in [OrderProducts -> Prices],
          cost \in ShippingCosts :
          CreateOrder(items, price, cost, "cash")
    \/ \E productId \in OrderProducts, quantity \in Quantities, price \in Prices :
          AddOrderItem("owner", productId, quantity, price)
    \/ \E productId \in OrderProducts : RemoveOrderItem("owner", productId)
    \/ \E discount \in Discounts : ApplyDiscount("owner", discount)
    \/ \E status \in {"paid", "shipped"} : UpdateOrderStatus("admin", status)
    \/ \E productId \in OrderProducts, price \in Prices \cup {0} :
          UpdateManyPrice(productId, price)
    \/ RecalculateAffected
    \/ RecalculateFails

SpecOrder == InitOrder /\ [][NextOrder]_vars

\* create requests as the route's validators admit them: a non-empty array
\* of productId and quantity, the same product allowed more than once
ItemRequests ==
    {<<Wanted(p, q)>> : p \in OrderProducts, q \in 1..MaxItemQty}
    \cup {<<Wanted(p1, 1), Wanted(p2, q)>> :
             p1 \in OrderProducts, p2 \in OrderProducts, q \in 1..MaxItemQty}

\* the items of one order under createOrder, addOrderItem and removeOrderItem
NextItems ==
    \/ \E items \in ItemRequests, price \in [OrderProducts -> Prices],
          cost \in ShippingCosts :
          CreateOrder(items, price, cost, "cash")
    \/ \E role \in Roles, productId \in OrderProducts, quantity \in Quantities,
          price \in Prices :
          AddOrderItem(role, productId, quantity, price)
    \/ \E role \in Roles, productId \in OrderProducts :
          RemoveOrderItem(role, productId)

SpecItems == InitOrder /\ [][NextItems]_vars

\* the lock of the order's contents: item and discount requests of every
\* role on an order that the admin moves through every locked status
NextLock ==
    \/ \E cost \in ShippingCosts :
          CreateOrder(<<Wanted("p1", 1)>>, [p \in OrderProducts |-> 10], cost, "cash")
    \/ \E role \in Roles, productId \in OrderProducts :
          AddOrderItem(role, productId, 1, 10)
    \/ \E role \in Roles, productId \in OrderProducts :
          RemoveOrderItem(role, productId)
    \/ \E role \in Roles :
          ApplyDiscount(role, [type |-> "percentage", amount |-> DiscountPct])
    \/ \E status \in LockedStatuses \cup {"processing"} :
          UpdateOrderStatus("admin", status)

SpecLock == InitOrder /\ [][NextLock]_vars

\* the order's status: every operation that writes it, on an order of one item
NextStatus ==
    \/ \E cost \in ShippingCosts, method \in PaymentMethods :
          CreateOrder(<<Wanted("p1", 1)>>, [p \in OrderProducts |-> 10], cost, method)
    \/ \E role \in Roles, status \in Statuses : UpdateOrderStatus(role, status)
    \/ \E role \in Roles, status \in {"none", "pending", "completed", "failed"} :
          UpdatePayment(role, [status |-> status, paidAt |-> "absent"])
    \/ \E role \in Roles, status \in {"pending", "shipped", "delivered"} :
          UpdateShipping(role, [status |-> status])
    \/ \E role \in Roles : CancelOrder(role)
    \/ \E role \in Roles, result \in PaymentResults : ProcessPayment(role, result)
    \/ ProcessPaymentSave
    \/ ProcessPaymentSaveFails
    \/ \E full \in BOOLEAN : ProcessRefund(full)
    \/ HandlePaymentSuccess
    \/ HandlePaymentFailure
    \/ \E full \in BOOLEAN : HandlePaymentRefund(full)
    \/ HandleUserDeactivated

SpecStatus == InitOrder /\ [][NextStatus]_vars

(***************************************************************************)
(* The totals of one order document (Order model, order-service)           *)
(***************************************************************************)
MaxApplied == 2

\* the documents createOrder builds with new Order({...}): validated items,
\* every amount but the shipping cost still 0
NewOrders ==
    {[NoOrder EXCEPT
         !.items = [k \in 1..Len(items) |->
                       ValidatedItem(items[k].productId, price[items[k].productId],
                                     items[k].quantity)],
         !.shippingAmount = cost,
         !.status = "pending",
         !.paymentStatus = "pending"] :
     items \in RequestItems \ {<<>>},
     price \in [OrderProducts -> Prices],
     cost \in ShippingCosts \cup {0}}

InitTotals ==
    /\ ord \in NewOrders
    /\ pu = NoUpdate
    /\ pay = NoPayment
    /\ last = NoOp
    /\ BreakerIdle
    /\ row = NoLoc
    /\ call = NoCall
    /\ scn = NoScn
    /\ InvIdle
    /\ NumberIdle
    /\ ConsumerIdle
    /\ PublisherIdle

\* order.calculateTotals()
MethodCalculateTotals ==
    /\ ord' = calculateTotals(ord)
    /\ last' = [op |-> "calculateTotals", events |-> <<>>]
    /\ UNCHANGED <<pu, pay, ledgerVars, invVars, breakerVars, numberVars, consumerVars, publisherVars>>

\* order.applyDiscount(discount)
MethodApplyDiscount(discount) ==
    /\ ord.discounts < MaxApplied
    /\ ord' = applyDiscount(ord, discount)
    /\ last' = [op |-> "applyDiscount", events |-> <<>>]
    /\ UNCHANGED <<pu, pay, ledgerVars, invVars, breakerVars, numberVars, consumerVars, publisherVars>>

NextTotals ==
    \/ MethodCalculateTotals
    \/ \E discount \in Discounts : MethodApplyDiscount(discount)

SpecTotals == InitTotals /\ [][NextTotals]_vars

(***************************************************************************)
(* The order's items and the stock reserved for them: the order            *)
(* controllers publish, the inventory consumer reserves and releases       *)
(***************************************************************************)
\* the only product ordered here has a row with stock for every quantity an
\* order can hold, and nothing reserved yet
InitMirror ==
    /\ inv = [p \in Stocked |->
                 [quantity |-> MaxStock, reservedQuantity |-> 0, inStock |-> TRUE]]
    /\ queue = <<>>
    /\ nPub = 0
    /\ h = [c \in Consumers |-> Idle]
    /\ dlq = 0
    /\ row = NoLoc
    /\ call = NoCall
    /\ scn = NoScn
    /\ OrderIdle
    /\ BreakerIdle
    /\ NumberIdle
    /\ ConsumerIdle
    /\ PublisherIdle

\* order.save() followed by publishOrderEvent(routingKey, data): the
\* message reaches product_service_queue
SavesAndPublishes(op, order, event, items) ==
    /\ nPub < MaxMsgs
    /\ Len(queue) < MaxQueue
    /\ Valid(order)
    /\ ord' = order
    /\ Responds(op, 200, <<Event(event, event = "order.created")>>)
    /\ nPub' = nPub + 1
    /\ queue' = Append(queue, Message(Body(event, TRUE, TRUE, items)))
    /\ UNCHANGED <<inv, h, dlq, pu, pay, ledgerVars, breakerVars, numberVars, consumerVars, publisherVars>>

\* createOrder with one item of a stocked product
OrderCreated(productId, quantity, price, method) ==
    /\ ord.status = "none"
    /\ LET order == calculateTotals(
                        [NoOrder EXCEPT
                            !.items = <<ValidatedItem(productId, price, quantity)>>,
                            !.paymentStatus = "pending"])
           initialStatus == IF method = "credit_card" THEN "payment_pending"
                            ELSE "pending"
       IN  SavesAndPublishes("createOrder", [order EXCEPT !.status = initialStatus],
                             "order.created",
                             [k \in 1..Len(order.items) |->
                                 Item(order.items[k].productId,
                                      order.items[k].quantity)])

\* addOrderItem by the owner: the event carries the quantity of the request
OrderItemAdded(productId, quantity, price) ==
    /\ quantity > 0
    /\ ord.status \notin LockedStatuses \cup {"none"}
    /\ LET order == addItem(ord, ValidatedItem(productId, price, quantity))
       IN  /\ \A k \in 1..Len(order.items) : order.items[k].quantity <= MaxItemQty
           /\ SavesAndPublishes("addOrderItem", order, "order.item.added",
                                <<Item(productId, quantity)>>)

\* removeOrderItem by the owner: the event carries the quantity the item had
OrderItemRemoved(productId) ==
    /\ ord.status \notin LockedStatuses \cup {"none"}
    /\ findIndex(ord.items, productId) # 0
    /\ LET quantity == ord.items[findIndex(ord.items, productId)].quantity
       IN  SavesAndPublishes("removeOrderItem", removeItem(ord, productId),
                             "order.item.removed", <<Item(productId, quantity)>>)

NextMirror ==
    \/ \E p \in Stocked, q \in 1..MaxItemQty, price \in Prices, m \in PaymentMethods :
           OrderCreated(p, q, price, m)
    \/ \E p \in Stocked, q \in 1..MaxItemQty, price \in Prices :
           OrderItemAdded(p, q, price)
    \/ \E p \in Stocked : OrderItemRemoved(p)
    \/ \E c \in Consumers : Deliver(c)
    \/ \E c \in Consumers : FindRow(c)
    \/ \E c \in Consumers : OpThrows(c)
    \/ \E c \in Consumers : OpSaves(c)
    \/ \E c \in Consumers : Ack(c)

SpecMirror == InitMirror /\ [][NextMirror]_vars

(***************************************************************************)
(* The connection of one consumer instance (product-service): setup,       *)
(* close and re-setup, the broker's deliveries under prefetch(1), and the  *)
(* handleMessage calls they start                                          *)
(***************************************************************************)
Msgs == {"m1", "m2"}

\* the service starts with its call of setupMessageConsumer() pending
InitConsumer ==
    /\ channel = 0
    /\ conns = {}
    /\ consuming = {}
    /\ nConn = 0
    /\ timers = 1
    /\ ready = <<>>
    /\ unacked = [id \in ConnIds |-> NoDelivery]
    /\ tags = [id \in ConnIds |-> 0]
    /\ running = {}
    /\ published = {}
    /\ row = NoLoc
    /\ call = NoCall
    /\ scn = NoScn
    /\ InvIdle
    /\ OrderIdle
    /\ BreakerIdle
    /\ NumberIdle
    /\ PublisherIdle

\* a publisher's message reaches the queue
PublishMsg(m) ==
    /\ m \notin published
    /\ published' = published \cup {m}
    /\ ready' = Append(ready, m)
    /\ UNCHANGED <<channel, conns, consuming, nConn, timers, unacked, tags, running,
                   ledgerVars, invVars, orderVars, breakerVars, numberVars, publisherVars>>

\* setupMessageConsumer runs to its end: connection, channel, prefetch(1),
\* queue, bindings and consume
Setup ==
    /\ timers > 0
    /\ nConn < MaxConns
    /\ nConn' = nConn + 1
    /\ timers' = timers - 1
    /\ conns' = conns \cup {nConn + 1}
    /\ consuming' = consuming \cup {nConn + 1}
    /\ channel' = nConn + 1
    /\ UNCHANGED <<ready, unacked, tags, running, published,
                   ledgerVars, invVars, orderVars, breakerVars, numberVars, publisherVars>>

\* setupMessageConsumer connects and a later await rejects, before or after
\* the assignment of channel: the catch schedules another call, the
\* connection stays open with its 'close' listener
SetupFails ==
    /\ timers > 0
    /\ nConn < MaxConns
    /\ nConn' = nConn + 1
    /\ conns' = conns \cup {nConn + 1}
    /\ channel' \in {channel, nConn + 1}
    /\ UNCHANGED <<consuming, timers, ready, unacked, tags, running, published,
                   ledgerVars, invVars, orderVars, breakerVars, numberVars, publisherVars>>

\* the messages the broker puts back at the head of the queue
Requeued(delivery) == IF delivery.msg = "none" THEN <<>> ELSE <<delivery.msg>>

\* the unacknowledged deliveries of the connections 1..k, put back
RECURSIVE RequeuedAll(_, _)
RequeuedAll(deliveries, k) ==
    IF k = 0 THEN <<>>
    ELSE RequeuedAll(deliveries, k - 1) \o Requeued(deliveries[k])

\* a connection closes: the broker requeues its unacknowledged delivery, the
\* 'close' listener sets channel to null and schedules setupMessageConsumer
Close(id) ==
    /\ id \in conns
    /\ conns' = conns \ {id}
    /\ consuming' = consuming \ {id}
    /\ channel' = 0
    /\ timers' = timers + 1
    /\ ready' = Requeued(unacked[id]) \o ready
    /\ unacked' = [unacked EXCEPT ![id] = NoDelivery]
    /\ UNCHANGED <<nConn, tags, running, published,
                   ledgerVars, invVars, orderVars, breakerVars, numberVars, publisherVars>>

\* the broker delivers the head of the queue to a consumer with no
\* unacknowledged delivery (prefetch 1) and amqplib calls handleMessage
DeliverMsg(id) ==
    /\ id \in consuming
    /\ unacked[id] = NoDelivery
    /\ ready # <<>>
    /\ tags[id] < MaxTag
    /\ tags' = [tags EXCEPT ![id] = @ + 1]
    /\ unacked' = [unacked EXCEPT ![id] = [msg |-> Head(ready), tag |-> tags[id] + 1]]
    /\ ready' = Tail(ready)
    /\ running' = running \cup {[msg |-> Head(ready), ch |-> id, tag |-> tags[id] + 1]}
    /\ UNCHANGED <<channel, conns, consuming, nConn, timers, published,
                   ledgerVars, invVars, orderVars, breakerVars, numberVars, publisherVars>>

\* handleMessage ends with channel null: channel.ack(msg) throws a TypeError
\* and so does the channel.nack(msg) of the catch
SettleNoChannel(r) ==
    /\ r \in running
    /\ channel = 0
    /\ running' = running \ {r}
    /\ UNCHANGED <<channel, conns, consuming, nConn, timers, ready, unacked, tags,
                   published,
                   ledgerVars, invVars, orderVars, breakerVars, numberVars, publisherVars>>

\* handleMessage ends with channel.ack(msg), or with channel.nack(msg, false,
\* true) after its handler threw: the broker settles the delivery of the
\* current channel that carries the message's delivery tag
Settle(r, outcome) ==
    /\ r \in running
    /\ channel # 0
    /\ unacked[channel].tag = r.tag
    /\ running' = running \ {r}
    /\ unacked' = [unacked EXCEPT ![channel] = NoDelivery]
    /\ ready' = IF outcome = "nack" THEN Requeued(unacked[channel]) \o ready
                ELSE ready
    /\ UNCHANGED <<channel, conns, consuming, nConn, timers, tags, published,
                   ledgerVars, invVars, orderVars, breakerVars, numberVars, publisherVars>>

\* the current channel has no delivery with the message's tag: the broker
\* closes the channel with PRECONDITION_FAILED, the channel's 'error' event
\* has no listener and the process ends
SettleUnknown(r) ==
    /\ r \in running
    /\ channel # 0
    /\ unacked[channel].tag # r.tag
    /\ running' = {}
    /\ channel' = 0
    /\ conns' = {}
    /\ consuming' = {}
    /\ timers' = 0
    /\ ready' = RequeuedAll(unacked, MaxConns) \o ready
    /\ unacked' = [id \in ConnIds |-> NoDelivery]
    /\ UNCHANGED <<nConn, tags, published,
                   ledgerVars, invVars, orderVars, breakerVars, numberVars, publisherVars>>

NextConsumer ==
    \/ \E m \in Msgs : PublishMsg(m)
    \/ Setup
    \/ SetupFails
    \/ \E id \in ConnIds : Close(id)
    \/ \E id \in ConnIds : DeliverMsg(id)
    \/ \E r \in running : SettleNoChannel(r)
    \/ \E r \in running, outcome \in {"ack", "nack"} : Settle(r, outcome)
    \/ \E r \in running : SettleUnknown(r)

SpecConsumer == InitConsumer /\ [][NextConsumer]_vars

(***************************************************************************)
(* The order publisher's connection (order-service): setupChannel and the  *)
(* publishOrderEvent calls and timers that run it                          *)
(***************************************************************************)
InitPublisher ==
    /\ PublisherIdle
    /\ row = NoLoc
    /\ call = NoCall
    /\ scn = NoScn
    /\ InvIdle
    /\ OrderIdle
    /\ BreakerIdle
    /\ NumberIdle
    /\ ConsumerIdle

\* publishOrderEvent with a channel: setupChannel returns it and the message
\* goes out on it
PublishOnChannel ==
    /\ pcalls < MaxCalls
    /\ pchannel # 0
    /\ pcalls' = pcalls + 1
    /\ pused' = pchannel
    /\ UNCHANGED <<pchannel, pconns, pN, psetups, ptimers,
                   ledgerVars, invVars, orderVars, breakerVars, numberVars,
                   consumerVars>>

\* publishOrderEvent without a channel: setupChannel passes if (channel) and
\* awaits amqp.connect
PublishConnects ==
    /\ pcalls < MaxCalls
    /\ pchannel = 0
    /\ pcalls' = pcalls + 1
    /\ psetups' = psetups + 1
    /\ UNCHANGED <<pchannel, pconns, pN, ptimers, pused,
                   ledgerVars, invVars, orderVars, breakerVars, numberVars,
                   consumerVars>>

\* a timer runs setupChannel: it returns at once with a channel, and awaits
\* amqp.connect without one
TimerFires ==
    /\ ptimers > 0
    /\ ptimers' = ptimers - 1
    /\ psetups' = IF pchannel = 0 THEN psetups + 1 ELSE psetups
    /\ UNCHANGED <<pchannel, pconns, pN, pcalls, pused,
                   ledgerVars, invVars, orderVars, breakerVars, numberVars,
                   consumerVars>>

\* amqp.connect, createChannel and assertExchange resolve: channel is assigned
Connected ==
    /\ psetups > 0
    /\ pN < MaxPubConns
    /\ psetups' = psetups - 1
    /\ pN' = pN + 1
    /\ pconns' = pconns \cup {pN + 1}
    /\ pchannel' = pN + 1
    /\ UNCHANGED <<ptimers, pcalls, pused,
                   ledgerVars, invVars, orderVars, breakerVars, numberVars,
                   consumerVars>>

\* amqp.connect rejects: the catch sets channel to null, schedules another
\* setupChannel and rethrows
ConnectFails ==
    /\ psetups > 0
    /\ psetups' = psetups - 1
    /\ pchannel' = 0
    /\ ptimers' = ptimers + 1
    /\ UNCHANGED <<pconns, pN, pcalls, pused,
                   ledgerVars, invVars, orderVars, breakerVars, numberVars,
                   consumerVars>>

\* amqp.connect resolves and createChannel or assertExchange rejects: the
\* connection stays open, the catch runs as above
ChannelFails ==
    /\ psetups > 0
    /\ pN < MaxPubConns
    /\ psetups' = psetups - 1
    /\ pN' = pN + 1
    /\ pconns' = pconns \cup {pN + 1}
    /\ pchannel' = 0
    /\ ptimers' = ptimers + 1
    /\ UNCHANGED <<pcalls, pused,
                   ledgerVars, invVars, orderVars, breakerVars, numberVars,
                   consumerVars>>

\* a connection closes: its 'close' listener sets channel to null and
\* schedules setupChannel
ConnectionCloses(id) ==
    /\ id \in pconns
    /\ pconns' = pconns \ {id}
    /\ pchannel' = 0
    /\ ptimers' = ptimers + 1
    /\ UNCHANGED <<pN, psetups, pcalls, pused,
                   ledgerVars, invVars, orderVars, breakerVars, numberVars,
                   consumerVars>>

NextPublisher ==
    \/ PublishOnChannel
    \/ PublishConnects
    \/ TimerFires
    \/ Connected
    \/ ConnectFails
    \/ ChannelFails
    \/ \E id \in 1..MaxPubConns : ConnectionCloses(id)

SpecPublisher == InitPublisher /\ [][NextPublisher]_vars

(***************************************************************************)
(* One order and the row of its product, every inventory event handled     *)
(* once, at once and in the order of its publication                       *)
(***************************************************************************)
\* stock for every reservation and commit the order's operations can ask for
Plenty == 4 * MaxItemQty

InitReserve ==
    /\ row = [quantity |-> Plenty, reservedQuantity |-> 0, inStock |-> TRUE]
    /\ call = NoCall
    /\ scn = NoScn
    /\ InvIdle
    /\ OrderIdle
    /\ BreakerIdle
    /\ NumberIdle
    /\ ConsumerIdle
    /\ PublisherIdle

\* the try block of a handler's loop for one item: the method's save, or
\* the row as it was when the method throws and the catch logs it
HandledItem(this, event, quantity) ==
    LET res == IF event \in {"order.created", "order.item.added"}
               THEN reserveStock(this, quantity)
               ELSE IF event = "order.paid" THEN paidItem(this, quantity)
               ELSE IF event = "order.refunded" THEN addStock(this, quantity)
               ELSE cancelledItem(this, quantity)
    IN  IF res.ok THEN res.inst
        ELSE IF event = "order.paid" /\ reduceStock(this, quantity, TRUE).ok
        THEN reduceStock(this, quantity, TRUE).inst
        ELSE this

\* a handler's loop over the items of its event
RECURSIVE HandledItems(_, _, _)
HandledItems(this, event, items) ==
    IF Len(items) = 0 THEN this
    ELSE HandledItems(HandledItem(this, event, Head(items).quantity), event,
                      Tail(items))

\* the items of an event's payload: order.items.map(item => ({productId,
\* quantity}))
Payload(order) ==
    [k \in 1..Len(order.items) |->
        Item(order.items[k].productId, order.items[k].quantity)]

\* order.save(), publishOrderEvent and the consumer's handling of the event;
\* the runs followed are those that leave stock for the largest request and
\* keep the quantity within MaxItemQty of its first value
SavesAndHandles(op, order, event, items) ==
    /\ Valid(order)
    /\ HandledItems(row, event, items).quantity <= Plenty + MaxItemQty
    /\ getAvailableStock(HandledItems(row, event, items)) >= MaxItemQty
    /\ ord' = order
    /\ Responds(op, 200, <<Event(event, event \notin ItemEvents)>>)
    /\ row' = HandledItems(row, event, items)
    /\ UNCHANGED <<call, scn, pu, pay, invVars, breakerVars, numberVars,
                   consumerVars, publisherVars>>

ReserveCreate(quantity, price, method) ==
    /\ ord.status = "none"
    /\ LET order == calculateTotals(
                        [NoOrder EXCEPT
                            !.items = <<ValidatedItem("p1", price, quantity)>>,
                            !.paymentStatus = "pending"])
           initialStatus == IF method = "credit_card" THEN "payment_pending"
                            ELSE "pending"
       IN  SavesAndHandles("createOrder", [order EXCEPT !.status = initialStatus],
                           "order.created", Payload(order))

ReserveAddItem(quantity, price) ==
    /\ quantity > 0
    /\ ord.status \notin LockedStatuses \cup {"none"}
    /\ LET order == addItem(ord, ValidatedItem("p1", price, quantity))
       IN  /\ \A k \in 1..Len(order.items) : order.items[k].quantity <= MaxItemQty
           /\ SavesAndHandles("addOrderItem", order, "order.item.added",
                              <<Item("p1", quantity)>>)

ReserveRemoveItem ==
    /\ ord.status \notin LockedStatuses \cup {"none"}
    /\ findIndex(ord.items, "p1") # 0
    /\ SavesAndHandles("removeOrderItem", removeItem(ord, "p1"),
                       "order.item.removed",
                       <<Item("p1", ord.items[findIndex(ord.items, "p1")].quantity)>>)

\* processPayment with a completed payment
ReservePay ==
    /\ ord.status \notin {"none", "cancelled"}
    /\ ord.paymentStatus # "completed"
    /\ LET order == updateStatus(updatePayment(ord, [status |-> "completed",
                                                     paidAt |-> "date"]), "paid")
       IN  SavesAndHandles("processPayment", order, "order.paid", Payload(order))

ReserveCancel(role) ==
    /\ ord.status \notin {"none", "delivered", "completed", "cancelled", "refunded"}
    /\ role = "admin" \/ ord.status \in {"pending", "payment_pending"}
    /\ SavesAndHandles("cancelOrder", updateStatus(ord, "cancelled"),
                       "order.cancelled", Payload(ord))

ReserveRefund(full) ==
    /\ ord.status # "none"
    /\ ord.paymentStatus = "completed"
    /\ LET refunded == [ord EXCEPT !.paymentStatus = "refunded"]
       IN  SavesAndHandles("processRefund",
                           IF full THEN updateStatus(refunded, "refunded")
                           ELSE refunded,
                           "order.refunded", Payload(ord))

NextReserve ==
    \/ \E q \in 1..MaxItemQty, price \in Prices, m \in PaymentMethods :
           ReserveCreate(q, price, m)
    \/ \E q \in 1..MaxItemQty, price \in Prices : ReserveAddItem(q, price)
    \/ ReserveRemoveItem
    \/ ReservePay
    \/ \E role \in {"admin", "owner"} : ReserveCancel(role)
    \/ \E full \in BOOLEAN : ReserveRefund(full)

SpecReserve == InitReserve /\ [][NextReserve]_vars

(***************************************************************************)
(* The circuit breaker (shared-lib)                                        *)
(***************************************************************************)
CircuitState == {"CLOSED", "OPEN", "HALF_OPEN"}
\* the Error a call fails with: the request's rejection, the rejection of the
\* timer of _executeWithTimeout, and a rejection a custom classifier sets apart
Errors == {"error", "timeout", "client"}
\* options.isFailure: absent, or a function that does not count "client"
Classifiers == {"default", "custom"}
ResetTimeouts == {1}
Options ==
    [failureThreshold : 1..MaxThreshold, successThreshold : 1..MaxThreshold,
     resetTimeout : ResetTimeouts, fallback : BOOLEAN, isFailure : Classifiers]

\* _defaultIsFailure counts every error there is
isFailure(error) ==
    IF opts.isFailure = "default" THEN error # "none" ELSE error # "client"

toOpen(this) ==
    [this EXCEPT !.state = "OPEN", !.failureCount = 0, !.successCount = 0,
                 !.lastFailureTime = now]

toHalfOpen(this) ==
    [this EXCEPT !.state = "HALF_OPEN", !.failureCount = 0, !.successCount = 0]

toClose(this) ==
    [this EXCEPT !.state = "CLOSED", !.failureCount = 0, !.successCount = 0,
                 !.lastFailureTime = 0]

reset(this) ==
    [this EXCEPT !.state = "CLOSED", !.failureCount = 0, !.successCount = 0,
                 !.lastFailureTime = 0]

handleSuccess(this) ==
    IF this.state = "HALF_OPEN"
    THEN LET counted == [this EXCEPT !.successCount = @ + 1]
         IN  IF counted.successCount >= opts.successThreshold
             THEN toClose(counted)
             ELSE counted
    ELSE IF this.state = "CLOSED"
    THEN [this EXCEPT !.failureCount = 0]
    ELSE this

handleFailureAboveThreshold(this, error) ==
    IF isFailure(error)
    THEN LET counted == [this EXCEPT !.failureCount = @ + 1,
                                     !.lastFailureTime = now]
         IN  IF counted.state = "CLOSED"
                /\ counted.failureCount > opts.failureThreshold
             THEN toOpen(counted)
             ELSE IF counted.state = "HALF_OPEN"
             THEN toOpen(counted)
             ELSE counted
    ELSE this

\* the instance after _handleFailure(error)
handleFailure(this, error) ==
    IF isFailure(error)
    THEN LET counted == [this EXCEPT !.failureCount = @ + 1,
                                     !.lastFailureTime = now]
         IN  IF counted.state = "CLOSED"
                /\ counted.failureCount >= opts.failureThreshold
             THEN toOpen(counted)
             ELSE IF counted.state = "HALF_OPEN"
             THEN toOpen(counted)
             ELSE counted
    ELSE this

\* what _handleFailure(error) gives back to the caller of fire()
failureResult(error) ==
    [invoked |-> TRUE, error |-> error,
     outcome |-> IF opts.fallback THEN "fallback" ELSE "throws"]

handleOpenCircuitThrows ==
    [invoked |-> FALSE, error |-> "open", outcome |-> "throws"]

\* what _handleOpenCircuit() gives back: the wrapped function was not called
handleOpenCircuit ==
    [invoked |-> FALSE, error |-> "open",
     outcome |-> IF opts.fallback THEN "fallback" ELSE "throws"]

resetTimeoutReached(this) ==
    this.lastFailureTime # 0 /\ now - this.lastFailureTime >= opts.resetTimeout

\* fire() on an OPEN breaker goes on to the request
resetTimeoutPassed(this) ==
    this.lastFailureTime # 0 /\ now - this.lastFailureTime > opts.resetTimeout

InitBreaker ==
    /\ cb = NewBreaker
    /\ opts \in Options
    /\ now = 1
    /\ calls = [c \in Callers |-> NoFire]
    /\ done = NoResult
    /\ row = NoLoc
    /\ call = NoCall
    /\ scn = NoScn
    /\ InvIdle
    /\ OrderIdle
    /\ NumberIdle
    /\ ConsumerIdle
    /\ PublisherIdle

\* fire() up to its await: the short circuit, or the call of the request
Fire(c) ==
    /\ calls[c].pc = "idle"
    /\ IF cb.state = "OPEN" /\ ~resetTimeoutPassed(cb)
       THEN /\ done' = handleOpenCircuit
            /\ UNCHANGED <<cb, calls>>
       ELSE /\ cb' = IF cb.state = "OPEN" THEN toHalfOpen(cb) ELSE cb
            /\ calls' = [calls EXCEPT ![c] =
                            [pc |-> "flight", probe |-> cb'.state = "HALF_OPEN"]]
            /\ UNCHANGED done
    /\ UNCHANGED <<opts, now, ledgerVars, invVars, orderVars, numberVars, consumerVars, publisherVars>>

\* the request resolves before the timer
Succeed(c) ==
    /\ calls[c].pc = "flight"
    /\ cb' = handleSuccess(cb)
    /\ calls' = [calls EXCEPT ![c] = NoFire]
    /\ done' = [invoked |-> TRUE, error |-> "none", outcome |-> "result"]
    /\ UNCHANGED <<opts, now, ledgerVars, invVars, orderVars, numberVars, consumerVars, publisherVars>>

\* the request rejects, or the timer rejects first
Fail(c, error) ==
    /\ calls[c].pc = "flight"
    /\ cb' = handleFailure(cb, error)
    /\ calls' = [calls EXCEPT ![c] = NoFire]
    /\ done' = failureResult(error)
    /\ UNCHANGED <<opts, now, ledgerVars, invVars, orderVars, numberVars, consumerVars, publisherVars>>

Reset ==
    /\ cb' = reset(cb)
    /\ UNCHANGED <<opts, now, calls, done, ledgerVars, invVars, orderVars, numberVars, consumerVars, publisherVars>>

\* the clock advances
Tick ==
    /\ now < MaxTime
    /\ now' = now + 1
    /\ UNCHANGED <<cb, opts, calls, done, ledgerVars, invVars, orderVars, numberVars, consumerVars, publisherVars>>

NextBreaker ==
    \/ \E c \in Callers : Fire(c)
    \/ \E c \in Callers : Succeed(c)
    \/ \E c \in Callers, error \in Errors : Fail(c, error)
    \/ Reset
    \/ Tick

SpecBreaker == InitBreaker /\ [][NextBreaker]_vars

(***************************************************************************)
(* The order number (Order model, order-service)                           *)
(***************************************************************************)
\* uuidv4().substring(0, 4).toUpperCase()
RandomStrs == {"1A2B", "3C4D"}

preSaveRegenerate(this, randomStr) ==
    [this EXCEPT !.orderNumber = [timestamp |-> sec, randomStr |-> randomStr]]

\* orderSchema.pre('save')
preSave(this, randomStr) ==
    IF this.orderNumber = NoNumber
    THEN [this EXCEPT !.orderNumber = [timestamp |-> sec, randomStr |-> randomStr]]
    ELSE this

\* the unique index on orderNumber refuses the document
DuplicateKey(id, doc) ==
    \E other \in OrderIds \ {id} :
        docs[other].persisted /\ docs[other].orderNumber = doc.orderNumber

InitNumber ==
    /\ NumberIdle
    /\ row = NoLoc
    /\ call = NoCall
    /\ scn = NoScn
    /\ InvIdle
    /\ OrderIdle
    /\ BreakerIdle
    /\ ConsumerIdle
    /\ PublisherIdle

\* order.save() of createOrder: a new document
FirstSave(id, randomStr) ==
    /\ ~docs[id].persisted
    /\ LET doc == preSave(NoDocument, randomStr)
       IN  IF DuplicateKey(id, doc)
           THEN /\ resp' = [id |-> id, op |-> "create", ok |-> FALSE]
                /\ UNCHANGED docs
           ELSE /\ docs' = [docs EXCEPT ![id] = [doc EXCEPT !.persisted = TRUE]]
                /\ resp' = [id |-> id, op |-> "create", ok |-> TRUE]
    /\ UNCHANGED <<sec, ledgerVars, invVars, orderVars, breakerVars, consumerVars, publisherVars>>

\* order.save() of a later request on a document read with findById
SaveAgain(id, randomStr) ==
    /\ docs[id].persisted
    /\ LET doc == preSave(docs[id], randomStr)
       IN  IF DuplicateKey(id, doc)
           THEN /\ resp' = [id |-> id, op |-> "update", ok |-> FALSE]
                /\ UNCHANGED docs
           ELSE /\ docs' = [docs EXCEPT ![id] = doc]
                /\ resp' = [id |-> id, op |-> "update", ok |-> TRUE]
    /\ UNCHANGED <<sec, ledgerVars, invVars, orderVars, breakerVars, consumerVars, publisherVars>>

\* the clock reaches the next second
NextSecond ==
    /\ sec < MaxSec
    /\ sec' = sec + 1
    /\ UNCHANGED <<docs, resp, ledgerVars, invVars, orderVars, breakerVars, consumerVars, publisherVars>>

NextNumber ==
    \/ \E id \in OrderIds, randomStr \in RandomStrs : FirstSave(id, randomStr)
    \/ \E id \in OrderIds, randomStr \in RandomStrs : SaveAgain(id, randomStr)
    \/ NextSecond

SpecNumber == InitNumber /\ [][NextNumber]_vars

(***************************************************************************)
(* Claims on the ledger                                                    *)
(***************************************************************************)
SameCounters(a, b) ==
    a.quantity = b.quantity /\ a.reservedQuantity = b.reservedQuantity

\* C3: with availableStock >= n, reserving n and then processing order.paid
\* for n leaves quantity decreased by exactly n and reservedQuantity at its
\* value before the reservation; reserving n and then processing
\* order.cancelled for n leaves both counters at their values before the
\* reservation.
C3_ReserveCommitSymmetry ==
    /\ scn.phase = "paid" =>
          /\ row.quantity = scn.q0 - scn.n
          /\ row.reservedQuantity = scn.r0
    /\ scn.phase = "cancelled" =>
          /\ row.quantity = scn.q0
          /\ row.reservedQuantity = scn.r0

C3_Witness ==
    scn.phase = "paid" /\ scn.n > 0 /\ scn.r0 > 0 /\ call.ok

\* C4 as stated: reserveStock(amount) fails and changes nothing when amount
\* exceeds availableStock, and succeeds, adding exactly amount to
\* reservedQuantity and leaving quantity alone, whenever
\* amount <= availableStock.
C4_Original ==
    call.op = "reserveStock" =>
        /\ call.amount > getAvailableStock(call.pre) =>
              ~call.ok /\ SameCounters(row, call.pre)
        /\ call.amount <= getAvailableStock(call.pre) =>
              /\ call.ok
              /\ row.reservedQuantity = call.pre.reservedQuantity + call.amount
              /\ row.quantity = call.pre.quantity

\* C4 amended: reserveStock(amount) fails and changes nothing when amount
\* exceeds availableStock or amount <= 0; with 0 < amount <= availableStock
\* it succeeds, adding exactly amount to reservedQuantity and leaving
\* quantity alone.
C4_ReserveStock ==
    call.op = "reserveStock" =>
        /\ (call.amount > getAvailableStock(call.pre) \/ call.amount <= 0) =>
              ~call.ok /\ SameCounters(row, call.pre)
        /\ (0 < call.amount /\ call.amount <= getAvailableStock(call.pre)) =>
              /\ call.ok
              /\ row.reservedQuantity = call.pre.reservedQuantity + call.amount
              /\ row.quantity = call.pre.quantity

C4_Witness ==
    /\ call.op = "reserveStock"
    /\ call.ok
    /\ call.pre.reservedQuantity > 0


\* C25: once order.paid has decremented an item's quantity, processing
\* order.refunded for the same item adds the quantity back: the product's
\* quantity is what it was before the payment was committed, and the refund
\* leaves reservedQuantity as it found it.
C25_RefundRestoresStock ==
    /\ [](scn.phase = "refunded" =>
            /\ row.quantity = scn.q0
            /\ row.reservedQuantity = scn.r0)
    /\ [][(call.op = "paid" /\ call.ok /\ LRefunded(call.amount))
          => (/\ row'.quantity = call.pre.quantity
              /\ row'.reservedQuantity = row.reservedQuantity)]_vars

C25_Witness ==
    /\ scn.phase = "refunded"
    /\ scn.n > 0
    /\ scn.r0 > 0
    /\ call.op = "addStock"
    /\ call.ok

(***************************************************************************)
(* Claims on the inventory consumer                                        *)
(***************************************************************************)
\* the units a message asks for that belong to products with an inventory row
StockedUnits(items) ==
    IF Len(items) = 0 THEN 0
    ELSE IF Len(items) = 1
         THEN (IF items[1].productId \in Stocked THEN items[1].quantity ELSE 0)
         ELSE (IF items[1].productId \in Stocked THEN items[1].quantity ELSE 0)
              + (IF items[2].productId \in Stocked THEN items[2].quantity ELSE 0)

\* C1: replaying the same order.paid event decrements each product's quantity
\* only once: over all its deliveries, a message never takes more units out
\* of quantity than its items ask for, whatever reservations other orders
\* hold on the product.
C1_ReplayDecrementsOnce ==
    \A c \in Consumers : h[c].msg.reduced <= StockedUnits(h[c].msg.items)

\* C2: reserveStock, reduceStock and addStock are atomic read-modify-writes:
\* a successful save moves the stored counters by exactly the change the
\* method made, whatever other consumers wrote since the row was read.
C2_NoLostUpdate ==
    [][\A c \in Consumers :
          OpSaves(c) =>
              Counters(inv'[CurItem(c).productId])
                  = Booked(Counters(inv[CurItem(c).productId]),
                           h[c].loc, Method(h[c]).inst)]_vars

\* C5: a failure that is not a parse error (the lookup or the save of an
\* inventory row rejects) never takes the handler to the acknowledgement of
\* its message.
C5_FailureNeverAcked ==
    [][\A c \in Consumers :
          (FindFails(c) \/ SaveFails(c)) => h'[c].pc # "ack"]_vars

\* C6: a message whose payload cannot be parsed is rejected without requeue
\* (it leaves the queue for the dead-letter exchange), is never redelivered
\* to a consumer, no handler ever runs on it, and the step that rejects it
\* leaves every inventory row as it was.
C6_UnparseableDeadLettered ==
    /\ [](/\ \A c \in Consumers : h[c].pc # "idle" => h[c].msg.parse
          /\ \A k \in 1..Len(queue) : ~queue[k].parse => ~queue[k].redelivered)
    /\ [][\A c \in Consumers :
             DeliverUnparseable(c) =>
                 /\ queue' = Tail(queue)
                 /\ dlq' = dlq + 1
                 /\ inv' = inv
                 /\ h'[c].pc = "idle"]_vars

C6_Witness ==
    dlq > 0 /\ \E p \in Stocked : inv[p].quantity > 0

\* C23: no inventory row ever holds a negative quantity or a negative
\* reservedQuantity, whatever events the consumer instances process and
\* however their reads and saves interleave.
C23_CountersNonNegative ==
    \A p \in Stocked : inv[p].quantity >= 0 /\ inv[p].reservedQuantity >= 0

C23_Witness ==
    /\ \E p \in Stocked : inv[p].quantity = 0 /\ inv[p].reservedQuantity = 0
    /\ \E c \in Consumers : h[c].msg.reduced > 0

\* C24: no inventory row ever holds more reserved units than units in stock,
\* whatever inventory events are processed by one or by several consumer
\* instances on the same product.
C24_ReservedWithinQuantity ==
    \A p \in Stocked : inv[p].reservedQuantity <= inv[p].quantity

\* C28: while order.created is handled, an item whose inventory row is
\* missing or whose reserveStock throws does not end the handler: the rows
\* keep what earlier items reserved, the message is neither requeued nor
\* dead-lettered, and the handler goes on to the next item or, after the
\* last one, to channel.ack.
C28_FailedItemSkipped ==
    [][\A c \in Consumers :
          (h[c].msg.event = "order.created" /\ (FindNone(c) \/ OpThrows(c))) =>
            /\ inv' = inv
            /\ queue' = queue
            /\ dlq' = dlq
            /\ h'[c].msg = h[c].msg
            /\ IF h[c].i < Len(h[c].msg.items)
               THEN h'[c].pc = "find" /\ h'[c].i = h[c].i + 1
               ELSE h'[c].pc = "ack"]_vars

\* a handler about to acknowledge order.created: its second item had no
\* inventory row, and the row of its first item holds a reservation
C28_Witness ==
    \E c \in Consumers :
        /\ h[c].pc = "ack"
        /\ h[c].msg.event = "order.created"
        /\ h[c].msg.items = <<Item("p1", 1), Item("p2", 1)>>
        /\ inv["p1"].reservedQuantity >= 1

\* C34: every message of the queue is eventually acknowledged or
\* dead-lettered: whenever the queue holds a message, a later state has it
\* empty with every handler returned.
C34_EveryMessageSettles ==
    (queue # <<>>) ~> (queue = <<>> /\ \A c \in Consumers : h[c].pc = "idle")

(***************************************************************************)
(* Claims on the order                                                     *)
(***************************************************************************)
\* C7: after any sequence of creation, item, discount and status requests
\* and of product.updated propagation steps, the persisted order has
\* total = subtotal + taxAmount - discountAmount + shippingAmount.
C7_TotalIdentity ==
    ord.status # "none" =>
        ord.total = ord.subtotal + ord.taxAmount - ord.discountAmount
                    + ord.shippingAmount

C7_Witness ==
    /\ last.op = "handleProductUpdated"
    /\ pu.pc = "idle"
    /\ ord.status \in OpenStatuses
    /\ ord.discountAmount > 0
    /\ \E k \in 1..Len(ord.items) :
          /\ ord.items[k].salePrice = 0
          /\ ord.items[k].price = 20
          /\ ord.items[k].subtotal = 20 * ord.items[k].quantity

\* C8: in every persisted state of the order, every item has
\* total = subtotal + taxes - discount and
\* subtotal = (salePrice > 0 ? salePrice : price) * quantity.
C8_ItemIdentity ==
    \A k \in 1..Len(ord.items) :
        LET item == ord.items[k]
        IN  /\ item.total = item.subtotal + item.taxes - item.discount
            /\ item.subtotal =
                   (IF item.salePrice > 0 THEN item.salePrice ELSE item.price)
                   * item.quantity

\* C9: an addItem, removeItem or applyDiscount request on an order whose
\* status is shipped, delivered, completed, cancelled or refunded leaves the
\* persisted order (items, discounts, amounts) as it was and publishes no
\* event.
C9_StatusLock ==
    [][(/\ ord.status \in LockedStatuses
        /\ last'.op \in {"addOrderItem", "removeOrderItem", "applyDiscount"})
       => (ord' = ord /\ last'.events = <<>>)]_vars

C9_Witness ==
    /\ ord.status \in LockedStatuses
    /\ last.op = "removeOrderItem"
    /\ Len(ord.items) > 0
    /\ ord.discounts > 0

\* C10: the status of an order changes only along the defined edges,
\* whatever operation changes it: creation to pending or payment_pending,
\* payment_pending to paid, processing to shipped, shipped to delivered, to
\* cancelled from a status other than delivered, completed and refunded, to
\* completed, and to refunded when payment.status is completed.
C10_DefinedEdges ==
    [][ord'.status # ord.status =>
          LET from == ord.status
              to == ord'.status
          IN  \/ from = "none" /\ to \in {"pending", "payment_pending"}
              \/ from = "payment_pending" /\ to = "paid"
              \/ from = "processing" /\ to = "shipped"
              \/ from = "shipped" /\ to = "delivered"
              \/ to = "cancelled" /\ from \notin {"delivered", "completed", "refunded"}
              \/ to = "completed"
              \/ to = "refunded" /\ ord.paymentStatus = "completed"]_vars

(***************************************************************************)
(* Claims on the order's totals                                            *)
(***************************************************************************)
\* the amounts calculateTotals writes: the order's and each item's
Totals(order) ==
    [subtotal |-> order.subtotal, taxAmount |-> order.taxAmount,
     total |-> order.total,
     items |-> [k \in 1..Len(order.items) |->
                   <<order.items[k].subtotal, order.items[k].total>>]]

\* C26: with nothing changed in between, calling calculateTotals a second
\* time leaves the subtotal, the taxAmount, the total and every item's
\* subtotal and total as the first call wrote them.
C26_TotalsIdempotent ==
    Totals(calculateTotals(calculateTotals(ord))) = Totals(calculateTotals(ord))

\* totals calculated on an order that carries a discount
C26_Witness ==
    /\ last.op = "calculateTotals"
    /\ ord.subtotal > 0
    /\ ord.discountAmount > 0
    /\ ord.total = ord.subtotal + ord.taxAmount - ord.discountAmount
                   + ord.shippingAmount

\* C27: applyDiscount adds to discountAmount the percentage of the current
\* subtotal, the fixed amount, or the current shippingAmount (which becomes
\* 0); the amount adds to what earlier discounts left, and afterwards
\* total = subtotal + taxAmount - discountAmount + shippingAmount.
C27_DiscountArithmetic ==
    [][\A discount \in Discounts :
          MethodApplyDiscount(discount) =>
            /\ discount.type = "percentage" =>
                 100 * ord'.discountAmount
                   = 100 * ord.discountAmount + ord.subtotal * discount.amount
            /\ discount.type = "fixed_amount" =>
                 ord'.discountAmount = ord.discountAmount + discount.amount
            /\ discount.type = "free_shipping" =>
                 /\ ord'.discountAmount = ord.discountAmount + ord.shippingAmount
                 /\ ord'.shippingAmount = 0
            /\ ord'.total = ord'.subtotal + ord'.taxAmount - ord'.discountAmount
                            + ord'.shippingAmount]_vars

\* a second discount applied on top of a first one that was worth something
C27_Witness ==
    /\ last.op = "applyDiscount"
    /\ ord.discounts >= 2
    /\ ord.subtotal > 0
    /\ 100 * ord.discountAmount > ord.subtotal * DiscountPct

(***************************************************************************)
(* Claims on the order's items and their reservation                       *)
(***************************************************************************)
\* the units of a product in the order's items
RECURSIVE Ordered(_, _)
Ordered(items, productId) ==
    IF Len(items) = 0 THEN 0
    ELSE (IF Head(items).productId = productId THEN Head(items).quantity ELSE 0)
         + Ordered(Tail(items), productId)

\* every published event has been handled and acknowledged
Settled == queue = <<>> /\ \A c \in Consumers : h[c].pc = "idle"

\* C29: for an order that is neither paid nor cancelled and stock that
\* suffices, once order.created and every order.item.added and
\* order.item.removed of the order have been handled, each once, the units
\* reserved of a product are the units of it in the order's items.
C29_ReservationMirrorsItems ==
    (Settled /\ ord.status \in {"pending", "payment_pending"}) =>
        \A p \in Stocked : inv[p].reservedQuantity = Ordered(ord.items, p)

\* C38: no two items of an order have the same productId, whatever
\* createOrder, addItem and removeItem calls made the items.
C38_OneItemPerProduct ==
    \A j \in 1..Len(ord.items), k \in 1..Len(ord.items) :
        ord.items[j].productId = ord.items[k].productId => j = k

(***************************************************************************)
(* Claims on the order's status                                            *)
(***************************************************************************)
\* the routing keys of a sequence of events
Published(events) == {events[k].event : k \in 1..Len(events)}

\* C11: a cancel request of the order's owner, who is not an admin, succeeds
\* from pending and payment_pending, where it sets status cancelled and
\* cancelledAt; in every other status it is rejected, status and cancelledAt
\* stay as they were and no order.cancelled event is published.
C11_OwnerCancel ==
    [][CancelOrder("owner") =>
          IF ord.status \in {"pending", "payment_pending"}
          THEN /\ ord'.status = "cancelled"
               /\ ord'.cancelledAt
          ELSE /\ ord'.status = ord.status
               /\ ord'.cancelledAt = ord.cancelledAt
               /\ "order.cancelled" \notin Published(last'.events)]_vars

C11_Witness ==
    /\ last.op = "cancelOrder"
    /\ last.events = <<>>
    /\ ord.status = "processing"
    /\ ~ord.cancelledAt

\* C12: the order moves to status refunded, and order.refunded is published
\* for it, only by a step that found payment.status completed, whichever
\* operation takes the step: the refund endpoint, the gateway webhook or the
\* admin's status update.
C12_RefundNeedsCompletedPayment ==
    [][((ord'.status = "refunded" /\ ord.status # "refunded")
        \/ "order.refunded" \in Published(last'.events))
       => ord.paymentStatus = "completed"]_vars


\* C13: an operation publishes its event only once the order's new state has
\* been saved: no step publishes an event while the request that takes it
\* still holds a change it has not saved.
C13_PersistBeforePublish ==
    [][(pay.pc = "idle" /\ pay'.pc = "save") => last'.events = <<>>]_vars

\* C14: every order.created, order.paid, order.cancelled and order.refunded
\* event the order service publishes carries the order id, the order number,
\* the user id and the list of items, whichever operation publishes it.
C14_EventsCarryItems ==
    \A k \in 1..Len(last.events) :
        last.events[k].event \in
            {"order.created", "order.paid", "order.cancelled", "order.refunded"}
        => {"orderId", "orderNumber", "userId", "items"} \subseteq last.events[k].keys


\* C33: order.paid is published at most once for an order: an operation
\* that publishes it is never followed by another operation that publishes
\* it again, whichever of processPayment, updatePayment, updateOrderStatus
\* and the payment webhook the two are.
C33_PaidPublishedOnce ==
    [][~ /\ "order.paid" \in Published(last.events)
         /\ "order.paid" \in Published(last'.events)
         /\ last' # last]_vars

\* C39: a lifecycle timestamp that has a value keeps it: no later status,
\* payment or shipping update leaves paidAt, shippedAt, deliveredAt,
\* completedAt or cancelledAt without the value it had.
C39_TimestampsKept ==
    [][/\ ord.paidAt => ord'.paidAt
       /\ ord.shippedAt => ord'.shippedAt
       /\ ord.deliveredAt => ord'.deliveredAt
       /\ ord.completedAt => ord'.completedAt
       /\ ord.cancelledAt => ord'.cancelledAt]_vars

\* C40: the order.status_updated event of an admin's status update carries
\* in prevStatus the status the order had before the update and in
\* newStatus the status it has after it.
C40_StatusUpdatedPayload ==
    [][\A status \in Statuses :
          UpdateOrderStatus("admin", status) =>
            \A k \in 1..Len(last'.events) :
                last'.events[k].event = "order.status_updated" =>
                    /\ last'.events[k].prevStatus = ord.status
                    /\ last'.events[k].newStatus = ord'.status]_vars

(***************************************************************************)
(* Claims on the circuit breaker                                           *)
(***************************************************************************)
\* C15: the breaker leaves CLOSED for OPEN in exactly the steps in which a
\* failure the classifier counts brings the count of failures since the last
\* success to failureThreshold; below the threshold it stays CLOSED, and a
\* success while CLOSED puts the count back to zero.
C15_OpensAtThreshold ==
    /\ [][(cb.state = "CLOSED" /\ cb'.state = "OPEN")
          <=> (/\ cb.state = "CLOSED"
               /\ cb.failureCount + 1 = opts.failureThreshold
               /\ \E c \in Callers, error \in Errors :
                     Fail(c, error) /\ isFailure(error))]_vars
    /\ [][(cb.state = "CLOSED" /\ \E c \in Callers : Succeed(c))
          => (cb'.state = "CLOSED" /\ cb'.failureCount = 0)]_vars
    /\ [](cb.state = "CLOSED" => cb.failureCount < opts.failureThreshold)

C15_Witness ==
    /\ cb.state = "OPEN"
    /\ opts.failureThreshold > 1
    /\ done.invoked
    /\ done.error # "none"


\* C16: a fire() on an OPEN breaker, no more than resetTimeout after the last
\* failure, short-circuits: the wrapped function is not called, the breaker
\* stays as it is, and the caller gets the open-circuit error, or the
\* fallback's result for it.
C16_OpenShortCircuits ==
    [][\A c \in Callers :
          (/\ cb.state = "OPEN"
           /\ now - cb.lastFailureTime <= opts.resetTimeout
           /\ Fire(c))
          => (/\ cb' = cb
              /\ calls' = calls
              /\ ~done'.invoked
              /\ done'.error = "open"
              /\ done'.outcome = IF opts.fallback THEN "fallback" ELSE "throws")]_vars

C16_Witness ==
    /\ cb.state = "OPEN"
    /\ now - cb.lastFailureTime = opts.resetTimeout
    /\ done.error = "open"
    /\ ~done.invoked
    /\ \A c \in Callers : calls[c].pc = "idle"

\* C17: while the breaker is HALF_OPEN and a probe is in flight, the fire()
\* calls that arrive are not all passed to the wrapped function: the callers
\* are never all probing at once.
C17_LimitedProbes ==
    cb.state = "HALF_OPEN"
    => \E c \in Callers : ~(calls[c].pc = "flight" /\ calls[c].probe)

\* C18: the breaker leaves HALF_OPEN for CLOSED only on successThreshold
\* successes in a row: when more than one success is needed, a success that
\* settles right after a failed call, counted by the classifier or not, does
\* not close the breaker.
C18_ConsecutiveSuccesses ==
    [][(/\ cb.state = "HALF_OPEN"
        /\ opts.successThreshold > 1
        /\ done.error # "none"
        /\ \E c \in Callers : Succeed(c))
       => cb'.state # "CLOSED"]_vars

\* C19: a call that fails while the breaker is HALF_OPEN moves it to OPEN and
\* restarts the resetTimeout wait, whatever the error is and whatever the
\* classifier answers for it.
C19_ProbeFailureOpens ==
    [][\A c \in Callers, error \in Errors :
          (cb.state = "HALF_OPEN" /\ Fail(c, error))
          => (cb'.state = "OPEN" /\ cb'.lastFailureTime = now)]_vars

\* C20: with a fallback configured no fire() raises: a call that fails, with
\* any error and whether the classifier counts it or not, and a call that is
\* short-circuited, each hand their error to the fallback and give back its
\* result.
C20_FallbackNeverRaises ==
    /\ [](opts.fallback => done.outcome # "throws")
    /\ [][\A c \in Callers, error \in Errors :
             (opts.fallback /\ Fail(c, error))
             => done' = [invoked |-> TRUE, error |-> error, outcome |-> "fallback"]]_vars
    /\ [][\A c \in Callers :
             (opts.fallback /\ Fire(c) /\ calls'[c].pc = "idle")
             => done' = [invoked |-> FALSE, error |-> "open", outcome |-> "fallback"]]_vars

C20_Witness ==
    /\ opts.fallback
    /\ opts.isFailure = "custom"
    /\ done = [invoked |-> TRUE, error |-> "client", outcome |-> "fallback"]


(***************************************************************************)
(* Claims on the consumer's connection                                     *)
(***************************************************************************)
\* C30: a consumer instance has at most one handleMessage call in flight:
\* the next message of the queue reaches the handler only after the call
\* before it has acknowledged or rejected its message, a close of the
\* connection and the re-setup that follows included.
C30_OneMessageAtATime == Cardinality(running) <= 1

(***************************************************************************)
(* Claims on the publisher's connection                                    *)
(***************************************************************************)
\* C31: the order publisher's process has at most one broker connection
\* open, whatever publishOrderEvent calls, retry timers and closes occur.
C31_OneConnection == Cardinality(pconns) <= 1

(***************************************************************************)
(* Claims on the reservations of an order's lifetime                       *)
(***************************************************************************)
\* C32: with every inventory event handled once and stock that suffices,
\* the units reserved of a product are the units of it in the orders that
\* are neither paid, cancelled nor refunded.
C32_ReservedIsOpenOrders ==
    row.reservedQuantity =
        IF ord.status \in {"pending", "payment_pending"}
        THEN Ordered(ord.items, "p1") ELSE 0

\* C35: handling order.refunded never raises a product's quantity above the
\* value it had before the order was paid: refunds give back no more than
\* the order's payment took from the stock.
C35_RefundWithinCommit == row.quantity <= Plenty

\* C36: while the breaker is HALF_OPEN, the settlement of a call that was
\* not admitted in HALF_OPEN leaves the breaker as it is: it neither counts
\* toward successThreshold nor reopens the breaker.
C36_LateCallsIgnored ==
    [][\A c \in Callers :
          (/\ cb.state = "HALF_OPEN"
           /\ calls[c].pc = "flight"
           /\ ~calls[c].probe
           /\ calls'[c].pc = "idle") => cb' = cb]_vars

\* C37: a handleMessage call settles its message on the channel that
\* delivered it: when a call ends, the module's channel is that channel,
\* neither null (a TypeError no one handles) nor the channel of a later
\* connection.
C37_SettlesOnOwnChannel ==
    [][\A r \in running : r \notin running' => channel = r.ch]_vars

(***************************************************************************)
(* Claims on the order number                                              *)
(***************************************************************************)
\* C21: every persisted order has an orderNumber, set before it was first
\* persisted, and no save of any later operation on the order changes it.
C21_NumberAssignedOnce ==
    /\ [](\A id \in OrderIds : docs[id].persisted => docs[id].orderNumber # NoNumber)
    /\ [][\A id \in OrderIds : docs[id].persisted => docs'[id] = docs[id]]_vars

C21_Witness ==
    /\ resp.op = "update"
    /\ resp.ok
    /\ docs[resp.id].orderNumber.timestamp < sec

\* C22: any two orders that are created, also within the same second, are
\* both persisted, and their orderNumbers differ.
C22_NumbersUnique ==
    /\ [](\A a, b \in OrderIds :
            (a # b /\ docs[a].persisted /\ docs[b].persisted)
            => docs[a].orderNumber # docs[b].orderNumber)
    /\ [][\A id \in OrderIds, randomStr \in RandomStrs :
             FirstSave(id, randomStr) => docs'[id].persisted]_vars

=============================================================================
